---- MODULE Spec2Model ----
(***************************************************************************)
(* Model of the two utilities of the X6 example pages:                     *)
(*   - AsyncBatchProcessor (processBatches, processBatchesWithAutoMerge,   *)
(*     generateBatch): a cooperative batch loop driven by                  *)
(*     requestAnimationFrame;                                              *)
(*   - ElkLayoutProcessor: the construction of the directive set handed    *)
(*     to the layout engine.                                               *)
(* Spec / FairSpec describe the batch processor, SpecLayout the adapter.   *)
(***************************************************************************)
EXTENDS Integers, Sequences, FiniteSets, TLC

(***************************************************************************)
(* Bounds of the model.                                                    *)
(***************************************************************************)
MaxLen == 4
MaxBatch == 3
MaxCount == 10
MaxGenBatch == 4

\* Bounds of the graphs: nodes and edges of a graph the pages lay out, layout
\* calls in one run, nodes of a graph smartLayout analyses, cells deleted
\* in one run, and the size parameter of smartLayout's edge shapes
MaxNodes == 2

MaxEdges == 2

MaxLayouts == 2

MaxSmartNodes == 32

MaxDeletes == 1

MaxShapeSize == 7

MaxRequests == 3

Items == {1, 2}

Min(a, b) == IF a < b THEN a ELSE b

Max(a, b) == IF a > b THEN a ELSE b

VARIABLES
  api,          \* which static method was called
  fullArray,    \* processBatches: the input array
  batchSize,    \* the batch size argument
  transform,    \* processBatches: which processBatchData the caller passed
  count,        \* generateBatch: the count argument
  generator,    \* generateBatch: which generator the caller passed
  hasProgress,  \* whether an onProgress callback was passed
  promise,      \* "none" before the call, then "pending", then "resolved"
  currentIndex, \* the closure variable currentIndex
  allResults,   \* the closure variable allResults
  results,      \* generateBatch: the closure variable results
  inFlight,     \* processBatchData calls started and not yet recorded
  rafQueue,     \* callbacks registered with requestAnimationFrame, not yet run
  outcome,      \* settlement of processBatchesWithAutoMerge
  batchLog,     \* history: every batch started, in start order
  yieldLog,     \* history: every requestAnimationFrame call
  progressLog,  \* history: every onProgress call
  genLog,       \* history: every generator call
  thrownLog,    \* history: every failure of a processBatchData call
  config,       \* ElkLayoutProcessor: this.config
  lpc,          \* ElkLayoutProcessor: position of the adapter's caller
  elkGraph,     \* ElkLayoutProcessor: the descriptor handed to the engine
  elk,          \* ElkLayoutProcessor: this.elk and how the constructor got it
  cells,        \* X6: the node and edge objects, by reference
  graph,        \* X6: the references graph.getNodes() and graph.getEdges() return
  call,         \* the layout call of the page
  layouts,      \* number of layout calls started
  writes,       \* the position() and setVertices() calls the last call issued
  presetConfig, \* what createPresetConfig last returned
  loading,      \* the example page: this.state.loading
  outstanding,  \* the example page: layout requests started and not settled
  requests,     \* the example page: number of layout requests started
  applyOrder    \* history: the requests whose result was applied, in order

batchVars == <<api, fullArray, batchSize, transform, count, generator,
               hasProgress, promise, currentIndex, allResults, results,
               inFlight, rafQueue, outcome, batchLog, yieldLog, progressLog,
               genLog, thrownLog>>

layoutVars == <<config, lpc, elkGraph, elk>>

graphVars == <<cells, graph, call, layouts, writes, presetConfig>>

pageVars == <<loading, outstanding, requests, applyOrder>>

vars == <<batchVars, layoutVars, graphVars, pageVars>>

(***************************************************************************)
(* AsyncBatchProcessor: values                                             *)
(***************************************************************************)
SeqsUpTo(S, n) == UNION {[1..k -> S] : k \in 0..n}

\* slice that stops one element early
Slice_DropsLast(arr, start, end) ==
  [i \in 1..Max(0, Min(end, Len(arr)) - start - 1) |-> arr[start + i]]

\* Array.prototype.slice(start, end) for 0 <= start and 0 <= end
Slice(arr, start, end) == [i \in 1..Max(0, Min(end, Len(arr)) - start) |-> arr[start + i]]

\* batch end without the Math.min against total
BatchEnd_Unclamped(idx, size, tot) == idx + size

\* Math.min(currentIndex + batchSize, total)
BatchEnd(idx, size, tot) == Min(idx + size, tot)

\* currentIndex / total as an IEEE number: 0/0 is NaN, otherwise the ratio
\* num/den (total is a length or a count, so a zero divisor means 0/0 here)
Progress(idx, tot) == [nan |-> tot = 0, num |-> idx, den |-> tot]

\* a next batch requested twice per batch boundary
FramesRequested_Twice(idx, tot) == IF idx < tot THEN 2 ELSE 0

\* a frame requested after the last batch as well
FramesRequested_Always(idx, tot) == 1

\* if (currentIndex < total) requestAnimationFrame(...) else resolve(...)
FramesRequested(idx, tot) == IF idx < tot THEN 1 ELSE 0

\* A field value of a batch result object: an array or any other value
ArrayValue(s) == [isArray |-> TRUE, val |-> s]

ScalarValue(x) == [isArray |-> FALSE, val |-> <<x>>]

\* The results a caller's processBatchData may return for a batch.
\* "identity" returns its batch; "object" returns a record with array and
\* non-array fields, as the documented { cells: [...] } processors do, and so
\* does "failing" when it does not fail.
processBatchData(t, batch) ==
  IF t = "identity" THEN {batch}
  ELSE { [k \in {"cells"} |-> ArrayValue(batch)],
         [k \in {"cells", "meta"} |->
            IF k = "cells" THEN ArrayValue(batch) ELSE ScalarValue(Len(batch))],
         [k \in {"meta"} |-> ScalarValue(Len(batch))],
         [k \in {"cells"} |-> ScalarValue(Len(batch))] }

\* The generators a caller may pass to generateBatch
generate(g, i) == IF g = "double" THEN i * 2 ELSE i + 1

Total == IF api = "generateBatch" THEN count ELSE Len(fullArray)

\* The logs and the result arrays keep their first LogCap entries. A run that
\* resolves has at most Total batches (one for an empty input), so only a
\* run that never resolves is cut.
LogCap == Total + 1

AppendCap(log, x) == IF Len(log) < LogCap THEN Append(log, x) ELSE log

Range(from, to) == [i \in 1..Max(0, to - from) |-> from + i - 1]

(***************************************************************************)
(* AsyncBatchProcessor: the state after the caller chose a method and its  *)
(* arguments, before the call.                                             *)
(***************************************************************************)
BatchInit ==
  /\ api \in {"processBatches", "processBatchesWithAutoMerge", "generateBatch"}
  /\ hasProgress \in BOOLEAN
  /\ IF api = "generateBatch"
       THEN /\ count \in 0..MaxCount
            /\ batchSize \in 0..MaxGenBatch
            /\ generator \in {"double", "succ"}
            /\ fullArray = <<>>
            /\ transform = "identity"
       ELSE /\ fullArray \in SeqsUpTo(Items, MaxLen)
            /\ batchSize \in 0..MaxBatch
            /\ transform \in (IF api = "processBatches"
                                THEN {"identity", "object"} ELSE {"object"})
            /\ count = 0
            /\ generator = "double"
  /\ promise = "none"
  /\ currentIndex = 0
  /\ allResults = <<>>
  /\ results = <<>>
  /\ inFlight = <<>>
  /\ rafQueue = 0
  /\ outcome = [state |-> "none", error |-> "", value |-> <<>>]
  /\ batchLog = <<>>
  /\ yieldLog = <<>>
  /\ progressLog = <<>>
  /\ genLog = <<>>
  /\ thrownLog = <<>>

(***************************************************************************)
(* processNextBatch up to its await: slice the batch and call the          *)
(* transform.                                                              *)
(***************************************************************************)
processNextBatch ==
  LET batchEnd == BatchEnd(currentIndex, batchSize, Total)
      currentBatch == Slice(fullArray, currentIndex, batchEnd)
  IN /\ inFlight' = Append(inFlight, [batch |-> currentBatch, batchEnd |-> batchEnd])
     /\ batchLog' = AppendCap(batchLog, [start |-> currentIndex, end |-> batchEnd,
                                         items |-> currentBatch,
                                         recorded |-> Len(allResults),
                                         running |-> Len(inFlight)])
     /\ UNCHANGED <<api, fullArray, batchSize, transform, count, generator,
                    hasProgress, currentIndex, allResults, results, outcome,
                    yieldLog, progressLog, genLog, thrownLog>>

\* What both loops do after a batch: report progress, then schedule the next
\* batch or resolve.
AfterBatch(idx, tot, started, running, queue) ==
  /\ currentIndex' = idx
  /\ progressLog' = IF hasProgress
                      THEN AppendCap(progressLog,
                             [progress |-> Progress(idx, tot),
                              processed |-> idx, total |-> tot,
                              batches |-> started])
                      ELSE progressLog
  /\ rafQueue' = queue + FramesRequested(idx, tot)
  /\ yieldLog' = IF FramesRequested(idx, tot) > 0
                   THEN AppendCap(yieldLog, [started |-> started, running |-> running])
                   ELSE yieldLog
  /\ promise' = IF promise = "resolved" \/ ~(idx < tot) THEN "resolved" ELSE "pending"

\* The caller invokes processBatches (directly or through the merge variant):
\* the first processNextBatch runs inside the promise executor.
processBatches ==
  /\ api \in {"processBatches", "processBatchesWithAutoMerge"}
  /\ promise = "none"
  /\ promise' = "pending"
  /\ rafQueue' = rafQueue
  /\ processNextBatch

\* An animation frame runs the processNextBatch registered for it.
processNextBatchFrame ==
  /\ api \in {"processBatches", "processBatchesWithAutoMerge"}
  /\ rafQueue > 0
  /\ rafQueue' = rafQueue - 1
  /\ promise' = promise
  /\ processNextBatch

\* The awaited transform produces its result: processNextBatch resumes.
TransformSettles ==
  /\ inFlight # <<>>
  /\ \E i \in 1..Len(inFlight) :
       \E batchResult \in processBatchData(transform, inFlight[i].batch) :
         /\ allResults' = AppendCap(allResults, batchResult)
         /\ inFlight' = [j \in 1..(Len(inFlight) - 1) |->
                           IF j < i THEN inFlight[j] ELSE inFlight[j + 1]]
         /\ AfterBatch(inFlight[i].batchEnd, Total, Len(batchLog), Len(inFlight) - 1, rafQueue)
  /\ UNCHANGED <<api, fullArray, batchSize, transform, count, generator,
                 hasProgress, results, outcome, batchLog, genLog, thrownLog>>

\* The failures a caller's processBatchData may throw or reject with
TransformErrors == {"bad cell", "out of memory"}

\* The awaited transform throws or rejects: the await in processNextBatch
\* rethrows and the promise of that processNextBatch call rejects. Nobody
\* handles it: the executor got resolve alone, and a frame callback's
\* promise is dropped.
TransformFails ==
  /\ transform = "failing"
  /\ inFlight # <<>>
  /\ \E i \in 1..Len(inFlight), error \in TransformErrors :
       /\ inFlight' = [j \in 1..(Len(inFlight) - 1) |->
                         IF j < i THEN inFlight[j] ELSE inFlight[j + 1]]
       /\ thrownLog' = AppendCap(thrownLog,
                                 [error |-> error, started |-> Len(batchLog)])
  /\ UNCHANGED <<api, fullArray, batchSize, transform, count, generator,
                 hasProgress, promise, currentIndex, allResults, results,
                 rafQueue, outcome, batchLog, yieldLog, progressLog, genLog>>

(***************************************************************************)
(* processBatchesWithAutoMerge after processBatches resolved.              *)
(***************************************************************************)
\* a merge step that overwrites every field, arrays included
MergeInto_Overwrite(merged, current) ==
  [key \in (DOMAIN merged) \cup (DOMAIN current) |->
     IF key \notin DOMAIN current THEN merged[key] ELSE current[key]]

\* One step of the merge loop: the fields of current merged into merged
MergeInto(merged, current) ==
  [key \in (DOMAIN merged) \cup (DOMAIN current) |->
     IF key \notin DOMAIN current THEN merged[key]
     ELSE IF key \in DOMAIN merged /\ current[key].isArray /\ merged[key].isArray
            THEN ArrayValue(merged[key].val \o current[key].val)
            ELSE current[key]]

RECURSIVE MergeFrom(_, _, _)
\* for (let i = 1; i < batchResults.length; i++) ..., from index i (1-based)
MergeFrom(merged, batchResults, i) ==
  IF i > Len(batchResults) THEN merged
  ELSE MergeFrom(MergeInto(merged, batchResults[i]), batchResults, i + 1)

AutoMerge(batchResults) ==
  IF Len(batchResults) = 0
    THEN [state |-> "rejected", error |-> "NoBatchesToMerge", value |-> <<>>]
    ELSE [state |-> "fulfilled", error |-> "",
          value |-> MergeFrom(batchResults[1], batchResults, 2)]

processBatchesWithAutoMerge ==
  /\ api = "processBatchesWithAutoMerge"
  /\ promise = "resolved"
  /\ outcome.state = "none"
  /\ outcome' = AutoMerge(allResults)
  /\ UNCHANGED <<api, fullArray, batchSize, transform, count, generator,
                 hasProgress, promise, currentIndex, allResults, results,
                 inFlight, rafQueue, batchLog, yieldLog, progressLog, genLog,
                 thrownLog>>

(***************************************************************************)
(* generateBatch                                                           *)
(***************************************************************************)
processBatch(queue) ==
  LET batchEnd == BatchEnd(currentIndex, batchSize, count)
      indices == Range(currentIndex, batchEnd)
      started == Min(Len(batchLog) + 1, LogCap)
  IN /\ results' = results \o [i \in 1..Len(indices) |-> generate(generator, indices[i])]
     /\ genLog' = genLog \o indices
     /\ batchLog' = AppendCap(batchLog, [start |-> currentIndex, end |-> batchEnd,
                                         items |-> indices,
                                         recorded |-> Len(results),
                                         running |-> 0])
     /\ AfterBatch(batchEnd, count, started, 0, queue)
     /\ UNCHANGED <<api, fullArray, batchSize, transform, count, generator,
                    hasProgress, allResults, inFlight, outcome, thrownLog>>

\* The caller invokes generateBatch: the first processBatch runs at once.
generateBatch ==
  /\ api = "generateBatch"
  /\ promise = "none"
  /\ processBatch(rafQueue)

\* An animation frame runs the processBatch registered for it.
processBatchFrame ==
  /\ api = "generateBatch"
  /\ rafQueue > 0
  /\ processBatch(rafQueue - 1)

(***************************************************************************)
(* ElkLayoutProcessor: configuration and directive set                     *)
(***************************************************************************)
SpacingKeys == {"nodeNode", "nodeNodeBetweenLayers", "edgeNodeBetweenLayers", "edgeEdge"}

\* The spacing numbers a caller may configure (a key may also be absent)
SpacingInputs == {0 - 5, 0, 10, 45, 100}

SpacingObjects == UNION {[K -> SpacingInputs] : K \in SUBSET SpacingKeys}

\* The directive a spacing key is written to
SpacingDirective(key) ==
  CASE key = "nodeNode" -> "elk.spacing.nodeNode"
    [] key = "nodeNodeBetweenLayers" -> "elk.layered.spacing.nodeNodeBetweenLayers"
    [] key = "edgeNodeBetweenLayers" -> "elk.layered.spacing.edgeNodeBetweenLayers"
    [] key = "edgeEdge" -> "elk.spacing.edgeEdge"

\* The floor each spacing directive is clamped to
SpacingMinimum(key) ==
  CASE key = "nodeNode" -> 30
    [] key = "nodeNodeBetweenLayers" -> 60
    [] key = "edgeNodeBetweenLayers" -> 30
    [] key = "edgeEdge" -> 20

Digit(d) ==
  CASE d = 0 -> "0" [] d = 1 -> "1" [] d = 2 -> "2" [] d = 3 -> "3" [] d = 4 -> "4"
    [] d = 5 -> "5" [] d = 6 -> "6" [] d = 7 -> "7" [] d = 8 -> "8" [] d = 9 -> "9"

RECURSIVE NumberToString(_)
\* Number.prototype.toString() of a non-negative integer
NumberToString(n) ==
  IF n < 10 THEN Digit(n) ELSE NumberToString(n \div 10) \o Digit(n % 10)

\* spacing.key || fallback: an absent key and the number 0 are falsy
OrDefault(spacing, key, fallback) ==
  IF key \in DOMAIN spacing /\ spacing[key] # 0 THEN spacing[key] ELSE fallback

\* spacing.key || min without the Math.max
ClampSpacing_NoFloor(spacing, key) == OrDefault(spacing, key, SpacingMinimum(key))

\* Math.max(spacing.key || min, min)
ClampSpacing(spacing, key) ==
  Max(OrDefault(spacing, key, SpacingMinimum(key)), SpacingMinimum(key))

\* a spread in which the earlier object wins: { ...obj, ...base }
Spread_BaseWins(base, obj) ==
  [k \in (DOMAIN base) \cup (DOMAIN obj) |-> IF k \in DOMAIN base THEN base[k] ELSE obj[k]]

\* obj spread over base: { ...base, ...obj }
Spread(base, obj) ==
  [k \in (DOMAIN base) \cup (DOMAIN obj) |-> IF k \in DOMAIN obj THEN obj[k] ELSE base[k]]

EmptyObject == [k \in {} |-> ""]

\* The layoutOptions overrides a caller may configure
LayoutOptionsInputs ==
  { EmptyObject,
    [k \in {"elk.alignment"} |-> "CENTER"],
    [k \in {"elk.edge.routing"} |-> "SPLINES"],
    [k \in {"elk.spacing.nodeNode"} |-> "10"],
    [k \in {"elk.algorithm", "elk.direction", "elk.layered.thoroughness"} |->
       CASE k = "elk.algorithm" -> "stress"
         [] k = "elk.direction" -> "RIGHT"
         [] k = "elk.layered.thoroughness" -> "7"],
    [k \in {"elk.layered.spacing.nodeNodeBetweenLayers", "elk.spacing.edgeEdge"} |->
       IF k = "elk.spacing.edgeEdge" THEN "5" ELSE "100"] }

\* The default configuration of the constructor
DefaultConfig ==
  [algorithm |-> "layered",
   direction |-> "DOWN",
   spacing |-> [k \in SpacingKeys |->
                  CASE k = "nodeNodeBetweenLayers" -> 25
                    [] k = "edgeNodeBetweenLayers" -> 15
                    [] k = "nodeNode" -> 20
                    [] k = "edgeEdge" -> 15],
   useWorker |-> TRUE,
   layoutOptions |-> EmptyObject]

\* The ElkLayoutConfig objects a caller may pass: any subset of the fields
ConfigInputs ==
  { [hasSpacing |-> hs, spacing |-> sp, hasLayoutOptions |-> hl, layoutOptions |-> lo,
     hasAlgorithm |-> ha, algorithm |-> al] :
      hs \in BOOLEAN, sp \in SpacingObjects, hl \in BOOLEAN, lo \in LayoutOptionsInputs,
      ha \in BOOLEAN, al \in {"force"} }

\* this.config = { ...defaults, ...config }: a field the caller passes
\* replaces the default field as a whole
MergeConfig(cfg) ==
  [algorithm |-> IF cfg.hasAlgorithm THEN cfg.algorithm ELSE DefaultConfig.algorithm,
   direction |-> DefaultConfig.direction,
   spacing |-> IF cfg.hasSpacing THEN cfg.spacing ELSE DefaultConfig.spacing,
   useWorker |-> DefaultConfig.useWorker,
   layoutOptions |-> IF cfg.hasLayoutOptions THEN cfg.layoutOptions
                     ELSE DefaultConfig.layoutOptions]

\* The routing styles of X6ToElkOptions; "" is an options object without one
EdgeRoutingInputs == {"", "ORTHOGONAL", "POLYLINE", "SPLINES"}

\* The directives computed before the caller's layoutOptions are merged in
ComputedOptions(cfg, edgeRouting) ==
  [k \in {"elk.algorithm", "elk.direction", "elk.spacing.nodeNode",
          "elk.layered.spacing.nodeNodeBetweenLayers",
          "elk.layered.spacing.edgeNodeBetweenLayers", "elk.spacing.edgeEdge",
          "elk.edge.routing", "elk.layered.crossingMinimization.strategy",
          "elk.layered.nodePlacement.strategy", "elk.layered.cycleBreaking.strategy",
          "elk.layered.compaction.postCompaction.strategy",
          "elk.layered.compaction.postCompaction.constraints",
          "elk.layered.edgeRouting.selfLoopDistribution",
          "elk.layered.edgeRouting.selfLoopOrdering", "elk.layered.thoroughness",
          "elk.layered.unnecessaryBendpoints", "elk.portConstraints", "elk.port.side"} |->
     CASE k = "elk.algorithm" -> cfg.algorithm
       [] k = "elk.direction" -> cfg.direction
       [] k = "elk.spacing.nodeNode" ->
            NumberToString(ClampSpacing(cfg.spacing, "nodeNode"))
       [] k = "elk.layered.spacing.nodeNodeBetweenLayers" ->
            NumberToString(ClampSpacing(cfg.spacing, "nodeNodeBetweenLayers"))
       [] k = "elk.layered.spacing.edgeNodeBetweenLayers" ->
            NumberToString(ClampSpacing(cfg.spacing, "edgeNodeBetweenLayers"))
       [] k = "elk.spacing.edgeEdge" ->
            NumberToString(ClampSpacing(cfg.spacing, "edgeEdge"))
       [] k = "elk.edge.routing" -> IF edgeRouting = "" THEN "ORTHOGONAL" ELSE edgeRouting
       [] k = "elk.layered.crossingMinimization.strategy" -> "LAYER_SWEEP"
       [] k = "elk.layered.nodePlacement.strategy" -> "BRANDES_KOEPF"
       [] k = "elk.layered.cycleBreaking.strategy" -> "GREEDY"
       [] k = "elk.layered.compaction.postCompaction.strategy" -> "EDGE_LENGTH"
       [] k = "elk.layered.compaction.postCompaction.constraints" -> "SEQUENCE"
       [] k = "elk.layered.edgeRouting.selfLoopDistribution" -> "EQUALLY"
       [] k = "elk.layered.edgeRouting.selfLoopOrdering" -> "STACKED"
       [] k = "elk.layered.thoroughness" -> "100"
       [] k = "elk.layered.unnecessaryBendpoints" -> "true"
       [] k = "elk.portConstraints" -> "FIXED_SIDE"
       [] k = "elk.port.side" -> "SOUTH"]

buildLayoutOptions(cfg, edgeRouting) ==
  Spread(ComputedOptions(cfg, edgeRouting), cfg.layoutOptions)

\* ---------------------------------------------------------------------------
\* Preset configurations (createPresetConfig of the TypeScript processor and of
\* the JavaScript processor, which adds 'compact' and has other values for
\* hierarchy, network and circular)
\* ---------------------------------------------------------------------------

TsPreset_flowchart ==
  [algorithm |-> "layered", direction |-> "DOWN",
   spacing |->
     [k \in {"nodeNodeBetweenLayers",
             "edgeNodeBetweenLayers",
             "nodeNode",
             "edgeEdge"} |->
        CASE k = "nodeNodeBetweenLayers" -> 80
          [] k = "edgeNodeBetweenLayers" -> 40
          [] k = "nodeNode" -> 60
          [] k = "edgeEdge" -> 20],
   layoutOptions |->
     [k \in {"elk.edge.routing",
             "elk.layered.crossingMinimization.strategy",
             "elk.layered.nodePlacement.strategy",
             "elk.alignment",
             "elk.layered.nodePlacement.favorStraightEdges",
             "elk.layered.nodePlacement.linearSegmentsDeflectionDampening",
             "elk.layered.unnecessaryBendpoints",
             "elk.layered.compaction.postCompaction.strategy",
             "elk.layered.compaction.postCompaction.constraints",
             "elk.layered.edgeRouting.selfLoopDistribution",
             "elk.layered.edgeRouting.selfLoopOrdering",
             "elk.layered.edgeRouting.splines.mode",
             "elk.layered.thoroughness",
             "elk.layered.cycleBreaking.strategy",
             "elk.portConstraints",
             "elk.portAlignment"} |->
        CASE k = "elk.edge.routing" -> "ORTHOGONAL"
          [] k = "elk.layered.crossingMinimization.strategy" -> "LAYER_SWEEP"
          [] k = "elk.layered.nodePlacement.strategy" -> "BRANDES_KOEPF"
          [] k = "elk.alignment" -> "CENTER"
          [] k = "elk.layered.nodePlacement.favorStraightEdges" -> "true"
          [] k = "elk.layered.nodePlacement.linearSegmentsDeflectionDampening" -> "0.3"
          [] k = "elk.layered.unnecessaryBendpoints" -> "true"
          [] k = "elk.layered.compaction.postCompaction.strategy" -> "EDGE_LENGTH"
          [] k = "elk.layered.compaction.postCompaction.constraints" -> "SEQUENCE"
          [] k = "elk.layered.edgeRouting.selfLoopDistribution" -> "EQUALLY"
          [] k = "elk.layered.edgeRouting.selfLoopOrdering" -> "STACKED"
          [] k = "elk.layered.edgeRouting.splines.mode" -> "CONSERVATIVE"
          [] k = "elk.layered.thoroughness" -> "100"
          [] k = "elk.layered.cycleBreaking.strategy" -> "GREEDY"
          [] k = "elk.portConstraints" -> "FIXED_SIDE"
          [] k = "elk.portAlignment" -> "CENTER"]]

TsPreset_hierarchy ==
  [algorithm |-> "mrtree", direction |-> "DOWN",
   spacing |->
     [k \in {"nodeNodeBetweenLayers",
             "edgeNodeBetweenLayers",
             "nodeNode",
             "edgeEdge"} |->
        CASE k = "nodeNodeBetweenLayers" -> 60
          [] k = "edgeNodeBetweenLayers" -> 30
          [] k = "nodeNode" -> 40
          [] k = "edgeEdge" -> 20]]

TsPreset_network ==
  [algorithm |-> "force", direction |-> "UNDEFINED",
   spacing |->
     [k \in {"nodeNode",
             "edgeEdge"} |->
        CASE k = "nodeNode" -> 50
          [] k = "edgeEdge" -> 25]]

TsPreset_circular ==
  [algorithm |-> "radial", direction |-> "UNDEFINED",
   spacing |->
     [k \in {"nodeNode",
             "edgeEdge"} |->
        CASE k = "nodeNode" -> 60
          [] k = "edgeEdge" -> 30]]

TsPreset_clear ==
  [algorithm |-> "layered", direction |-> "DOWN",
   spacing |->
     [k \in {"nodeNodeBetweenLayers",
             "edgeNodeBetweenLayers",
             "nodeNode",
             "edgeEdge"} |->
        CASE k = "nodeNodeBetweenLayers" -> 120
          [] k = "edgeNodeBetweenLayers" -> 60
          [] k = "nodeNode" -> 80
          [] k = "edgeEdge" -> 40],
   layoutOptions |->
     [k \in {"elk.layered.crossingMinimization.strategy",
             "elk.layered.nodePlacement.strategy",
             "elk.edge.routing",
             "elk.layered.unnecessaryBendpoints",
             "elk.spacing.portPort",
             "elk.layered.thoroughness"} |->
        CASE k = "elk.layered.crossingMinimization.strategy" -> "LAYER_SWEEP"
          [] k = "elk.layered.nodePlacement.strategy" -> "SIMPLE"
          [] k = "elk.edge.routing" -> "ORTHOGONAL"
          [] k = "elk.layered.unnecessaryBendpoints" -> "true"
          [] k = "elk.spacing.portPort" -> "20"
          [] k = "elk.layered.thoroughness" -> "100"]]

JsPreset_flowchart ==
  [algorithm |-> "layered", direction |-> "DOWN",
   spacing |->
     [k \in {"nodeNodeBetweenLayers",
             "edgeNodeBetweenLayers",
             "nodeNode",
             "edgeEdge"} |->
        CASE k = "nodeNodeBetweenLayers" -> 80
          [] k = "edgeNodeBetweenLayers" -> 40
          [] k = "nodeNode" -> 60
          [] k = "edgeEdge" -> 20],
   layoutOptions |->
     [k \in {"elk.edge.routing",
             "elk.layered.crossingMinimization.strategy",
             "elk.layered.nodePlacement.strategy",
             "elk.alignment",
             "elk.layered.nodePlacement.favorStraightEdges",
             "elk.layered.nodePlacement.linearSegmentsDeflectionDampening",
             "elk.layered.unnecessaryBendpoints",
             "elk.layered.compaction.postCompaction.strategy",
             "elk.layered.compaction.postCompaction.constraints",
             "elk.layered.edgeRouting.selfLoopDistribution",
             "elk.layered.edgeRouting.selfLoopOrdering",
             "elk.layered.edgeRouting.splines.mode",
             "elk.layered.thoroughness",
             "elk.layered.cycleBreaking.strategy",
             "elk.portConstraints",
             "elk.portAlignment"} |->
        CASE k = "elk.edge.routing" -> "ORTHOGONAL"
          [] k = "elk.layered.crossingMinimization.strategy" -> "LAYER_SWEEP"
          [] k = "elk.layered.nodePlacement.strategy" -> "BRANDES_KOEPF"
          [] k = "elk.alignment" -> "CENTER"
          [] k = "elk.layered.nodePlacement.favorStraightEdges" -> "true"
          [] k = "elk.layered.nodePlacement.linearSegmentsDeflectionDampening" -> "0.3"
          [] k = "elk.layered.unnecessaryBendpoints" -> "true"
          [] k = "elk.layered.compaction.postCompaction.strategy" -> "EDGE_LENGTH"
          [] k = "elk.layered.compaction.postCompaction.constraints" -> "SEQUENCE"
          [] k = "elk.layered.edgeRouting.selfLoopDistribution" -> "EQUALLY"
          [] k = "elk.layered.edgeRouting.selfLoopOrdering" -> "STACKED"
          [] k = "elk.layered.edgeRouting.splines.mode" -> "CONSERVATIVE"
          [] k = "elk.layered.thoroughness" -> "100"
          [] k = "elk.layered.cycleBreaking.strategy" -> "GREEDY"
          [] k = "elk.portConstraints" -> "FIXED_SIDE"
          [] k = "elk.portAlignment" -> "CENTER"]]

JsPreset_hierarchy ==
  [algorithm |-> "mrtree", direction |-> "DOWN",
   spacing |->
     [k \in {"nodeNodeBetweenLayers",
             "edgeNodeBetweenLayers",
             "nodeNode",
             "edgeEdge"} |->
        CASE k = "nodeNodeBetweenLayers" -> 100
          [] k = "edgeNodeBetweenLayers" -> 50
          [] k = "nodeNode" -> 60
          [] k = "edgeEdge" -> 30],
   layoutOptions |->
     [k \in {"elk.mrtree.searchOrder",
             "elk.edge.routing"} |->
        CASE k = "elk.mrtree.searchOrder" -> "DFS"
          [] k = "elk.edge.routing" -> "POLYLINE"]]

JsPreset_network ==
  [algorithm |-> "force", direction |-> "UNDEFINED",
   spacing |->
     [k \in {"nodeNode",
             "edgeEdge"} |->
        CASE k = "nodeNode" -> 80
          [] k = "edgeEdge" -> 40],
   layoutOptions |->
     [k \in {"elk.force.repulsion",
             "elk.force.attraction",
             "elk.force.iterations",
             "elk.edge.routing"} |->
        CASE k = "elk.force.repulsion" -> "200.0"
          [] k = "elk.force.attraction" -> "0.1"
          [] k = "elk.force.iterations" -> "300"
          [] k = "elk.edge.routing" -> "SPLINES"]]

JsPreset_circular ==
  [algorithm |-> "radial", direction |-> "UNDEFINED",
   spacing |->
     [k \in {"nodeNode",
             "edgeEdge"} |->
        CASE k = "nodeNode" -> 100
          [] k = "edgeEdge" -> 50],
   layoutOptions |->
     [k \in {"elk.radial.radius",
             "elk.radial.compaction",
             "elk.edge.routing"} |->
        CASE k = "elk.radial.radius" -> "150.0"
          [] k = "elk.radial.compaction" -> "true"
          [] k = "elk.edge.routing" -> "SPLINES"]]

JsPreset_compact ==
  [algorithm |-> "layered", direction |-> "RIGHT",
   spacing |->
     [k \in {"nodeNodeBetweenLayers",
             "edgeNodeBetweenLayers",
             "nodeNode",
             "edgeEdge"} |->
        CASE k = "nodeNodeBetweenLayers" -> 40
          [] k = "edgeNodeBetweenLayers" -> 20
          [] k = "nodeNode" -> 30
          [] k = "edgeEdge" -> 15],
   layoutOptions |->
     [k \in {"elk.layered.compaction.connectedComponents",
             "elk.layered.compaction.postCompaction.strategy",
             "elk.edge.routing"} |->
        CASE k = "elk.layered.compaction.connectedComponents" -> "true"
          [] k = "elk.layered.compaction.postCompaction.strategy" -> "EDGE_LENGTH"
          [] k = "elk.edge.routing" -> "ORTHOGONAL"]]

JsPreset_clear ==
  [algorithm |-> "layered", direction |-> "DOWN",
   spacing |->
     [k \in {"nodeNodeBetweenLayers",
             "edgeNodeBetweenLayers",
             "nodeNode",
             "edgeEdge"} |->
        CASE k = "nodeNodeBetweenLayers" -> 120
          [] k = "edgeNodeBetweenLayers" -> 60
          [] k = "nodeNode" -> 80
          [] k = "edgeEdge" -> 40],
   layoutOptions |->
     [k \in {"elk.layered.crossingMinimization.strategy",
             "elk.layered.nodePlacement.strategy",
             "elk.edge.routing",
             "elk.layered.unnecessaryBendpoints",
             "elk.spacing.portPort",
             "elk.layered.thoroughness"} |->
        CASE k = "elk.layered.crossingMinimization.strategy" -> "LAYER_SWEEP"
          [] k = "elk.layered.nodePlacement.strategy" -> "SIMPLE"
          [] k = "elk.edge.routing" -> "ORTHOGONAL"
          [] k = "elk.layered.unnecessaryBendpoints" -> "true"
          [] k = "elk.spacing.portPort" -> "20"
          [] k = "elk.layered.thoroughness" -> "100"]]

\* const presets = { ... } of the TypeScript processor
TsPresets ==
  [name \in {"flowchart", "hierarchy", "network", "circular", "clear"} |->
     CASE name = "flowchart" -> TsPreset_flowchart
       [] name = "hierarchy" -> TsPreset_hierarchy
       [] name = "network" -> TsPreset_network
       [] name = "circular" -> TsPreset_circular
       [] name = "clear" -> TsPreset_clear]

\* const presets = { ... } of the JavaScript processor
JsPresets ==
  [name \in {"flowchart", "hierarchy", "network", "circular", "compact", "clear"} |->
     CASE name = "flowchart" -> JsPreset_flowchart
       [] name = "hierarchy" -> JsPreset_hierarchy
       [] name = "network" -> JsPreset_network
       [] name = "circular" -> JsPreset_circular
       [] name = "compact" -> JsPreset_compact
       [] name = "clear" -> JsPreset_clear]

\* The names a caller may pass: the presets of either processor, the page's
\* 'custom', the empty string, and two names every object literal inherits
\* from Object.prototype
PresetNameInputs ==
  {"flowchart", "hierarchy", "network", "circular", "compact", "clear",
   "custom", "", "constructor", "toString"}

ObjectPrototypeKeys == {"constructor", "toString"}

Undefined == [undefined |-> TRUE]

\* presets[preset]: an own property, else a property inherited from
\* Object.prototype (a function, truthy), else undefined
GetProperty(presets, preset) ==
  IF preset \in DOMAIN presets THEN presets[preset]
  ELSE IF preset \in ObjectPrototypeKeys THEN [inherited |-> preset]
  ELSE Undefined

\* a table built once and kept: it holds the bundle a pending smartLayout
\* took from it and scaled in place
PresetTable_Shared(variant, last) ==
  IF variant = "ts" THEN TsPresets
  ELSE IF last.pc = "pending" /\ last.entry = "smartLayout"
            /\ last.selected \in DOMAIN JsPresets
         THEN [JsPresets EXCEPT ![last.selected].spacing = last.config.spacing]
         ELSE JsPresets

\* const presets = { ... } inside createPresetConfig: the table is built anew
\* on every call, whatever the last caller did to the bundle it was given
PresetTable(variant, last) == IF variant = "ts" THEN TsPresets ELSE JsPresets

\* return presets[preset] || presets.flowchart
createPresetConfig(presets, preset) ==
  LET found == GetProperty(presets, preset)
  IN IF found = Undefined THEN presets["flowchart"] ELSE found

\* ---------------------------------------------------------------------------
\* smartLayout of the JavaScript processor: graph analysis, preset selection,
\* spacing scale
\* ---------------------------------------------------------------------------

\* A JavaScript number that is a quotient of two integers, den >= 0:
\* n/0 is Infinity for n > 0 and NaN for n = 0
Quotient(n, d) == [num |-> n, den |-> d]

\* a < p/q on numbers; false when a is NaN or Infinity
LessThan(a, p, q) == a.den # 0 /\ a.num * q < p * a.den

\* a > p/q on numbers; true for Infinity, false for NaN
GreaterThan(a, p, q) == IF a.den = 0 THEN a.num > 0 ELSE a.num * q > p * a.den

\* Math.min and Math.max of two finite quotients
MathMin(a, b) == IF a.num * b.den <= b.num * a.den THEN a ELSE b

MathMax(a, b) == IF a.num * b.den >= b.num * a.den THEN a ELSE b

\* Math.round of the non-negative quotient n/d: halves round up
MathRound(n, d) == (2 * n + d) \div (2 * d)

\* edgeCount / (nodeCount * (nodeCount - 1) / 2)
Density(nodeCount, edgeCount) ==
  Quotient(edgeCount, (nodeCount * (nodeCount - 1)) \div 2)

RECURSIVE DegreeMap(_)
\* degreeMap after edges.forEach: ends is the sequence of <<source, target>>
DegreeMap(ends) ==
  IF ends = <<>> THEN [id \in {} |-> 0]
  ELSE LET before == DegreeMap(SubSeq(ends, 1, Len(ends) - 1))
           source == ends[Len(ends)][1]
           target == ends[Len(ends)][2]
           Get(m, id) == IF id \in DOMAIN m THEN m[id] ELSE 0
           afterSource == Spread(before, [id \in {source} |-> Get(before, source) + 1])
       IN Spread(afterSource, [id \in {target} |-> Get(afterSource, target) + 1])

RECURSIVE MaxOf(_)
\* Math.max(...values, 0)
MaxOf(S) ==
  IF S = {} THEN 0
  ELSE LET v == CHOOSE v \in S : TRUE IN Max(v, MaxOf(S \ {v}))

MaxDegree(ends) ==
  LET degreeMap == DegreeMap(ends) IN MaxOf({degreeMap[id] : id \in DOMAIN degreeMap})

\* the if-chain with the density test of the first branch dropped
SelectPreset_NoDensity(nodeCount, density, maxDegree) ==
  IF nodeCount <= 10 THEN "clear"
  ELSE IF nodeCount <= 20 /\ maxDegree <= 3 THEN "flowchart"
  ELSE IF GreaterThan(density, 1, 2) \/ maxDegree > 5 THEN "network"
  ELSE IF nodeCount > 30 THEN "compact"
  ELSE "hierarchy"

\* The if-chain of smartLayout, first match wins
SelectPreset(nodeCount, density, maxDegree) ==
  IF nodeCount <= 10 /\ LessThan(density, 3, 10) THEN "clear"
  ELSE IF nodeCount <= 20 /\ maxDegree <= 3 THEN "flowchart"
  ELSE IF GreaterThan(density, 1, 2) \/ maxDegree > 5 THEN "network"
  ELSE IF nodeCount > 30 THEN "compact"
  ELSE "hierarchy"

\* the multiplier without its upper cap: Math.max(1, nodeCount / 15)
SpacingMultiplier_Uncapped(nodeCount) ==
  MathMax(Quotient(1, 1), Quotient(nodeCount, 15))

\* Math.max(1, Math.min(2, nodeCount / 15))
SpacingMultiplier(nodeCount) ==
  MathMax(Quotient(1, 1), MathMin(Quotient(2, 1), Quotient(nodeCount, 15)))

\* layoutConfig.spacing[key] = Math.round(layoutConfig.spacing[key] * multiplier)
ScaleSpacing(spacing, multiplier) ==
  [key \in DOMAIN spacing |-> MathRound(spacing[key] * multiplier.num, multiplier.den)]

\* const flowchartConfig of applyFlowchartLayout
flowchartConfig ==
  [algorithm |-> "layered", direction |-> "DOWN", useWorker |-> TRUE,
   spacing |->
     [k \in {"nodeNodeBetweenLayers",
             "edgeNodeBetweenLayers",
             "nodeNode",
             "edgeEdge"} |->
        CASE k = "nodeNodeBetweenLayers" -> 100
          [] k = "edgeNodeBetweenLayers" -> 50
          [] k = "nodeNode" -> 80
          [] k = "edgeEdge" -> 30],
   layoutOptions |->
     [k \in {"elk.edge.routing",
             "elk.alignment",
             "elk.layered.nodePlacement.strategy",
             "elk.layered.nodePlacement.favorStraightEdges",
             "elk.layered.nodePlacement.linearSegmentsDeflectionDampening",
             "elk.layered.crossingMinimization.strategy",
             "elk.layered.crossingMinimization.greedySwitch.type",
             "elk.layered.unnecessaryBendpoints",
             "elk.layered.straightening.strategy",
             "elk.layered.compaction.postCompaction.strategy",
             "elk.layered.compaction.postCompaction.constraints",
             "elk.layered.compaction.connectedComponents",
             "elk.layered.thoroughness",
             "elk.layered.cycleBreaking.strategy",
             "elk.portConstraints",
             "elk.portAlignment",
             "elk.port.borderOffset",
             "elk.layered.edgeRouting.selfLoopDistribution",
             "elk.layered.edgeRouting.selfLoopOrdering",
             "elk.spacing.portPort",
             "elk.layered.mergeEdges",
             "elk.separateConnectedComponents"} |->
        CASE k = "elk.edge.routing" -> "ORTHOGONAL"
          [] k = "elk.alignment" -> "CENTER"
          [] k = "elk.layered.nodePlacement.strategy" -> "BRANDES_KOEPF"
          [] k = "elk.layered.nodePlacement.favorStraightEdges" -> "true"
          [] k = "elk.layered.nodePlacement.linearSegmentsDeflectionDampening" -> "0.2"
          [] k = "elk.layered.crossingMinimization.strategy" -> "LAYER_SWEEP"
          [] k = "elk.layered.crossingMinimization.greedySwitch.type" -> "TWO_SIDED"
          [] k = "elk.layered.unnecessaryBendpoints" -> "true"
          [] k = "elk.layered.straightening.strategy" -> "IMPROVE_STRAIGHTNESS"
          [] k = "elk.layered.compaction.postCompaction.strategy" -> "EDGE_LENGTH"
          [] k = "elk.layered.compaction.postCompaction.constraints" -> "SEQUENCE"
          [] k = "elk.layered.compaction.connectedComponents" -> "true"
          [] k = "elk.layered.thoroughness" -> "100"
          [] k = "elk.layered.cycleBreaking.strategy" -> "GREEDY"
          [] k = "elk.portConstraints" -> "FREE"
          [] k = "elk.portAlignment" -> "CENTER"
          [] k = "elk.port.borderOffset" -> "0"
          [] k = "elk.layered.edgeRouting.selfLoopDistribution" -> "EQUALLY"
          [] k = "elk.layered.edgeRouting.selfLoopOrdering" -> "STACKED"
          [] k = "elk.spacing.portPort" -> "10"
          [] k = "elk.layered.mergeEdges" -> "true"
          [] k = "elk.separateConnectedComponents" -> "false"]]

\* ---------------------------------------------------------------------------
\* The X6 graph, the engine, and the conversions between them
\* ---------------------------------------------------------------------------

\* node.id and edge.id of the cell with reference ref
NodeId(ref) == "node-" \o NumberToString(ref)

EdgeId(ref) == "edge-" \o NumberToString(ref)

\* no cell: what Map.get returns for an id it does not hold
NoRef == 0

\* The cells of a graph of n nodes and of the edges whose ends (pairs of node
\* references) are listed in ends; nodes with an odd reference have a size,
\* the others have a height and no width yet; every node starts at the
\* origin and every edge without vertices
CellsOf(n, ends) ==
  [nodes |-> [ref \in 1..n |->
                [id |-> NodeId(ref),
                 width |-> IF ref % 2 = 1 THEN 60 ELSE 0,
                 height |-> 30,
                 x |-> 0, y |-> 0, transition |-> 0]],
   edges |-> [ref \in 1..Len(ends) |->
                [id |-> EdgeId(ref), source |-> NodeId(ends[ref][1]),
                 target |-> NodeId(ends[ref][2]), vertices |-> <<>>]]]

\* graph.getNodes() and graph.getEdges() of a graph holding all of its cells
GraphOf(n, ends) ==
  [nodes |-> [i \in 1..n |-> i], edges |-> [i \in 1..Len(ends) |-> i]]

\* The defaults convertX6ToElk gives its options
ConvertDefaults ==
  [defaultNodeSize |-> [width |-> 80, height |-> 40],
   autoCalculateSize |-> TRUE,
   edgeRouting |-> "ORTHOGONAL"]

\* a conversion that takes a node's size only when both dimensions are set
ElkGraphOf_BothOrNeither(cfg, nodes, edges, options) ==
  LET opts == Spread(ConvertDefaults, options)
      Sized(node) == opts.autoCalculateSize /\ node.width > 0 /\ node.height > 0
      Child(node) ==
        [id |-> node.id,
         width |-> IF Sized(node) THEN node.width ELSE opts.defaultNodeSize.width,
         height |-> IF Sized(node) THEN node.height
                    ELSE opts.defaultNodeSize.height]
      Connection(edge) ==
        [id |-> edge.id, sources |-> <<edge.source>>, targets |-> <<edge.target>>]
  IN [id |-> "root",
      layoutOptions |-> buildLayoutOptions(cfg, opts.edgeRouting),
      children |-> [i \in 1..Len(nodes) |-> Child(cells.nodes[nodes[i]])],
      edges |-> [i \in 1..Len(edges) |-> Connection(cells.edges[edges[i]])]]

\* convertX6ToElk(nodes, edges, options): one child per node and one edge
\* per edge, in order, under a root that carries the directives
ElkGraphOf(cfg, nodes, edges, options) ==
  LET opts == Spread(ConvertDefaults, options)
      Child(node) ==
        [id |-> node.id,
         width |-> IF opts.autoCalculateSize /\ node.width > 0
                   THEN node.width ELSE opts.defaultNodeSize.width,
         height |-> IF opts.autoCalculateSize /\ node.height > 0
                    THEN node.height ELSE opts.defaultNodeSize.height]
      Connection(edge) ==
        [id |-> edge.id, sources |-> <<edge.source>>, targets |-> <<edge.target>>]
  IN [id |-> "root",
      layoutOptions |-> buildLayoutOptions(cfg, opts.edgeRouting),
      children |-> [i \in 1..Len(nodes) |-> Child(cells.nodes[nodes[i]])],
      edges |-> [i \in 1..Len(edges) |-> Connection(cells.edges[edges[i]])]]

\* What the engine may answer to a descriptor
EngineBehaviours == {"bends", "straight", "foreign", "bare"}

\* The failures the engine's layout call may reject with
EngineErrors == {"worker terminated", "unsupported algorithm"}

Reverse(s) == [i \in 1..Len(s) |-> s[Len(s) + 1 - i]]

\* elk.layout(elkGraph): "bends" places every child and gives
\* every edge one bend point; "straight" gives sections without bend points
\* or no sections; "foreign" answers in reverse order and adds a child and an
\* edge the descriptor did not hold; "bare" answers with the root alone
EngineLayout(g, behaviour) ==
  LET Placed(i) ==
        [id |-> g.children[i].id, width |-> g.children[i].width,
         height |-> g.children[i].height, x |-> 40 * i, y |-> 70 * i]
      Bent(i) ==
        [id |-> g.edges[i].id, sources |-> g.edges[i].sources,
         targets |-> g.edges[i].targets,
         sections |-> << [id |-> "section",
                          bendPoints |-> << [x |-> 10, y |-> i] >>] >>]
      Straight(i) ==
        IF i % 2 = 1
          THEN [id |-> g.edges[i].id, sources |-> g.edges[i].sources,
                targets |-> g.edges[i].targets, sections |-> << [id |-> "section"] >>]
          ELSE [id |-> g.edges[i].id, sources |-> g.edges[i].sources,
                targets |-> g.edges[i].targets]
      placed == [i \in 1..Len(g.children) |-> Placed(i)]
  IN CASE behaviour = "bends" ->
            [id |-> "root", width |-> 500, height |-> 400, children |-> placed,
             edges |-> [i \in 1..Len(g.edges) |-> Bent(i)]]
       [] behaviour = "straight" ->
            [id |-> "root", width |-> 500, height |-> 400, children |-> placed,
             edges |-> [i \in 1..Len(g.edges) |-> Straight(i)]]
       [] behaviour = "foreign" ->
            [id |-> "root", width |-> 500, height |-> 400,
             children |-> Append(Reverse(placed), [id |-> "ghost"]),
             edges |-> Append(Reverse([i \in 1..Len(g.edges) |-> Bent(i)]),
                              [id |-> "ghost-edge"])]
       [] behaviour = "bare" -> [id |-> "root"]

\* obj.key || []
OrEmpty(obj, key) == IF key \in DOMAIN obj THEN obj[key] ELSE <<>>

\* a lookup by position in the original list instead of by id
MapGet_ByPosition(store, refs, id, i) == IF i <= Len(refs) THEN refs[i] ELSE NoRef

\* new Map(originals.map(cell => [cell.id, cell])).get(id) for the i-th entry
\* of the result: the last original with that id, or undefined
MapGet(store, refs, id, i) ==
  LET hits == {j \in 1..Len(refs) : store[refs[j]].id = id}
  IN IF hits = {} THEN NoRef ELSE refs[MaxOf(hits)]

\* a conversion that answers from the originals, whatever the engine returned
convertElkToX6_FromOriginals(elkResult, originalNodes, originalEdges) ==
  [nodes |-> [i \in 1..Len(originalNodes) |->
                [id |-> cells.nodes[originalNodes[i]].id,
                 x |-> 0, y |-> 0, width |-> 80, height |-> 40,
                 originalNode |-> originalNodes[i]]],
   edges |-> [i \in 1..Len(originalEdges) |->
                [id |-> cells.edges[originalEdges[i]].id,
                 source |-> "", target |-> "", vertices |-> <<>>,
                 originalEdge |-> originalEdges[i]]],
   layoutSize |-> [width |-> 0, height |-> 0]]

\* convertElkToX6(elkResult, originalNodes, originalEdges)
convertElkToX6(elkResult, originalNodes, originalEdges) ==
  LET children == OrEmpty(elkResult, "children")
      connections == OrEmpty(elkResult, "edges")
      NodeEntry(i) ==
        [id |-> children[i].id,
         x |-> OrDefault(children[i], "x", 0),
         y |-> OrDefault(children[i], "y", 0),
         width |-> OrDefault(children[i], "width", 80),
         height |-> OrDefault(children[i], "height", 40),
         originalNode |-> MapGet(cells.nodes, originalNodes, children[i].id, i)]
      EdgeEntry(i) ==
        LET sections == OrEmpty(connections[i], "sections")
            sources == OrEmpty(connections[i], "sources")
            targets == OrEmpty(connections[i], "targets")
        IN [id |-> connections[i].id,
            source |-> IF Len(sources) > 0 THEN sources[1] ELSE "",
            target |-> IF Len(targets) > 0 THEN targets[1] ELSE "",
            vertices |-> IF Len(sections) > 0
                         THEN OrEmpty(sections[1], "bendPoints") ELSE <<>>,
            originalEdge |-> MapGet(cells.edges, originalEdges, connections[i].id, i)]
  IN [nodes |-> [i \in 1..Len(children) |-> NodeEntry(i)],
      edges |-> [i \in 1..Len(connections) |-> EdgeEntry(i)],
      layoutSize |-> [width |-> OrDefault(elkResult, "width", 0),
                      height |-> OrDefault(elkResult, "height", 0)]]

\* { nodes: [], edges: [], layoutSize: { width: 0, height: 0 } }
EmptyResult ==
  [nodes |-> <<>>, edges |-> <<>>, layoutSize |-> [width |-> 0, height |-> 0]]

RECURSIVE ApplyNodes(_, _, _)
\* layoutResult.nodes.forEach: node.position(x, y) on every entry that has
\* an original node, with a transition when animationDuration > 0
ApplyNodes(store, entries, animationDuration) ==
  IF entries = <<>> THEN store
  ELSE LET entry == Head(entries)
           node == entry.originalNode
           moved ==
             IF node = NoRef THEN store
             ELSE [store EXCEPT ![node].x = entry.x, ![node].y = entry.y,
                                ![node].transition =
                                  IF animationDuration > 0 THEN animationDuration ELSE 0]
       IN ApplyNodes(moved, Tail(entries), animationDuration)

RECURSIVE ApplyEdges(_, _)
\* layoutResult.edges.forEach: edge.setVertices(vertices) on every entry
\* that has an original edge and at least one vertex
ApplyEdges(store, entries) ==
  IF entries = <<>> THEN store
  ELSE LET entry == Head(entries)
           edge == entry.originalEdge
           set ==
             IF edge # NoRef /\ Len(entry.vertices) > 0
             THEN [store EXCEPT ![edge].vertices = entry.vertices] ELSE store
       IN ApplyEdges(set, Tail(entries))

\* The position() and setVertices() calls one apply step issues
WritesOf(result) ==
  {[kind |-> "node", ref |-> result.nodes[i].originalNode] :
     i \in {j \in 1..Len(result.nodes) : result.nodes[j].originalNode # NoRef}}
  \cup
  {[kind |-> "edge", ref |-> result.edges[i].originalEdge] :
     i \in {j \in 1..Len(result.edges) :
              /\ result.edges[j].originalEdge # NoRef
              /\ Len(result.edges[j].vertices) > 0}}

NoGraph == [id |-> "", layoutOptions |-> EmptyObject, children |-> <<>>, edges |-> <<>>]

\* What the caller passes for useWorker: nothing, true or false
WorkerInputs ==
  { [hasUseWorker |-> FALSE, useWorker |-> FALSE],
    [hasUseWorker |-> TRUE, useWorker |-> TRUE],
    [hasUseWorker |-> TRUE, useWorker |-> FALSE] }

\* What the environment does to the constructor's calls: the worker attempt
\* (resolving the worker URL, then new ELK({ workerUrl })), and the first and
\* the second new ELK() of one construction
Environments == [workerThrows : BOOLEAN, plainThrows : [1..2 -> BOOLEAN]]

NoElk == [instance |-> "none", workerInitFailed |-> FALSE]

\* The try/catch cascade of the constructor: the engine instance obtained
\* ("worker" from new ELK({ workerUrl }), "plain" from new ELK(), "none" when
\* the constructor throws) and the useWorker flag left in this.config
InitElk(useWorker, env) ==
  IF useWorker
    THEN IF ~env.workerThrows
           THEN [instance |-> "worker", workerInitFailed |-> FALSE,
                 useWorker |-> TRUE, thrown |-> FALSE]
         ELSE IF ~env.plainThrows[1]
           THEN [instance |-> "plain", workerInitFailed |-> TRUE,
                 useWorker |-> TRUE, thrown |-> FALSE]
         ELSE IF ~env.plainThrows[2]
           THEN [instance |-> "plain", workerInitFailed |-> TRUE,
                 useWorker |-> FALSE, thrown |-> FALSE]
         ELSE [instance |-> "none", workerInitFailed |-> TRUE,
               useWorker |-> TRUE, thrown |-> TRUE]
    ELSE IF ~env.plainThrows[1]
           THEN [instance |-> "plain", workerInitFailed |-> FALSE,
                 useWorker |-> FALSE, thrown |-> FALSE]
         ELSE [instance |-> "none", workerInitFailed |-> FALSE,
               useWorker |-> FALSE, thrown |-> TRUE]

LayoutInit ==
  /\ config = DefaultConfig
  /\ lpc = "start"
  /\ elkGraph = NoGraph
  /\ elk = NoElk

\* new ElkLayoutProcessor(config)
Construct ==
  /\ lpc = "start"
  /\ \E cfg \in ConfigInputs, w \in WorkerInputs, env \in Environments :
       LET merged == MergeConfig(cfg)
           requested == IF w.hasUseWorker THEN w.useWorker ELSE merged.useWorker
           init == InitElk(requested, env)
       IN /\ config' = [merged EXCEPT !.useWorker = init.useWorker]
          /\ elk' = [instance |-> init.instance,
                     workerInitFailed |-> init.workerInitFailed]
          /\ lpc' = IF init.thrown THEN "failed" ELSE "constructed"
  /\ UNCHANGED elkGraph

\* convertX6ToElk(nodes, edges, options): the root of the descriptor
convertX6ToElk ==
  /\ lpc = "constructed"
  /\ \E edgeRouting \in EdgeRoutingInputs :
       elkGraph' = ElkGraphOf(config, graph.nodes, graph.edges,
                              [k \in {"edgeRouting"} |-> edgeRouting])
  /\ lpc' = "converted"
  /\ UNCHANGED <<config, elk>>

\* ---------------------------------------------------------------------------
\* Layout calls on a live graph
\* ---------------------------------------------------------------------------

\* The options objects a caller may pass to a layout call
OptionInputs ==
  { EmptyObject,
    [k \in {"autoCalculateSize", "edgeRouting"} |->
       IF k = "edgeRouting" THEN "POLYLINE" ELSE FALSE] }

\* options.animationDuration of applyFlowchartLayout: absent, 0, or a duration
AnimationInputs ==
  { [given |-> FALSE, value |-> 0], [given |-> TRUE, value |-> 0],
    [given |-> TRUE, value |-> 600] }

\* options.elkConfig of applyFlowchartLayout: absent or a partial configuration
ElkConfigInputs ==
  { EmptyObject, [k \in {"spacing"} |-> [key \in {"nodeNode"} |-> 45]] }

\* The layout call of the page: where it stands, what it captured when it
\* started, what it was given and what it settled with
IdleCall ==
  [pc |-> "idle", entry |-> "", nodes |-> <<>>, edges |-> <<>>,
   options |-> EmptyObject, requested |-> [given |-> FALSE, value |-> 0],
   animationDuration |-> 0, config |-> DefaultConfig,
   selected |-> "", multiplier |-> Quotient(1, 1), engineCalls |-> 0,
   removed |-> {}, result |-> EmptyResult, thrown |-> "", error |-> ""]

NoPreset == [variant |-> "", name |-> "", during |-> "", config |-> Undefined]

GraphIdle ==
  /\ cells = CellsOf(0, <<>>)
  /\ graph = GraphOf(0, <<>>)
  /\ call = IdleCall
  /\ layouts = 0
  /\ writes = {}
  /\ presetConfig = NoPreset

\* an emptiness test that also wants the edge list empty
HasNothingToLayout_NoCells(nodes, edges) == Len(nodes) = 0 /\ Len(edges) = 0

\* if (nodes.length === 0)
HasNothingToLayout(nodes, edges) == Len(nodes) = 0

\* A layout call up to the await of the engine: the graph's cells are
\* captured, an empty node list resolves at once with the empty result,
\* anything else is converted and handed to the engine
StartLayout(entry, cfg, options, requested, animationDuration, selected, multiplier) ==
  /\ layouts' = layouts + 1
  /\ writes' = {}
  /\ IF HasNothingToLayout(graph.nodes, graph.edges)
       THEN /\ call' = [IdleCall EXCEPT !.pc = "resolved", !.entry = entry,
                                        !.nodes = graph.nodes, !.edges = graph.edges]
            /\ UNCHANGED elkGraph
       ELSE /\ call' = [IdleCall EXCEPT !.pc = "pending", !.entry = entry,
                                        !.nodes = graph.nodes, !.edges = graph.edges,
                                        !.options = options,
                                        !.requested = requested,
                                        !.animationDuration = animationDuration,
                                        !.config = cfg, !.selected = selected,
                                        !.multiplier = multiplier, !.engineCalls = 1]
            /\ elkGraph' = ElkGraphOf(cfg, graph.nodes, graph.edges, options)
  /\ UNCHANGED <<cells, graph, presetConfig, config, lpc, elk>>

\* processor.applyLayoutToGraph(graph, layoutOptions, animationDuration)
applyLayoutToGraph ==
  /\ call.pc # "pending"
  /\ layouts < MaxLayouts
  /\ \E options \in OptionInputs, animationDuration \in {0, 300} :
       StartLayout("applyLayoutToGraph", config, options,
                   [given |-> TRUE, value |-> animationDuration], animationDuration,
                   "", Quotient(1, 1))

\* processor.applyFlowchartLayout(graph, options): the flowchart
\* configuration with the caller's elkConfig spread over it goes to a new
\* processor, whose engine is taken to construct
applyFlowchartLayout ==
  /\ call.pc # "pending"
  /\ layouts < MaxLayouts
  /\ \E options \in OptionInputs, elkConfig \in ElkConfigInputs,
        animation \in AnimationInputs :
       LET mergedConfig ==
             [Spread(flowchartConfig, elkConfig) EXCEPT
                !.layoutOptions =
                  Spread(flowchartConfig.layoutOptions,
                         IF "layoutOptions" \in DOMAIN elkConfig
                         THEN elkConfig.layoutOptions ELSE EmptyObject)]
           layoutOptions ==
             Spread([defaultNodeSize |-> [width |-> 120, height |-> 50],
                     autoCalculateSize |-> TRUE, edgeRouting |-> "ORTHOGONAL"],
                    options)
           animationDuration ==
             IF animation.given /\ animation.value # 0 THEN animation.value ELSE 600
       IN StartLayout("applyFlowchartLayout", Spread(DefaultConfig, mergedConfig),
                      layoutOptions, animation, animationDuration, "",
                      Quotient(1, 1))

\* processor.smartLayout(graph, options) of the JavaScript processor
smartLayout ==
  /\ call.pc # "pending"
  /\ layouts < MaxLayouts
  /\ \E options \in OptionInputs :
       LET nodeCount == Len(graph.nodes)
           edgeCount == Len(graph.edges)
           density == Density(nodeCount, edgeCount)
           maxDegree ==
             MaxDegree([i \in 1..edgeCount |->
                          <<cells.edges[graph.edges[i]].source,
                            cells.edges[graph.edges[i]].target>>])
           selected == SelectPreset(nodeCount, density, maxDegree)
           defaults ==
             Spread([defaultNodeSize |-> [width |-> 120, height |-> 50],
                     autoCalculateSize |-> TRUE, edgeRouting |-> "ORTHOGONAL"],
                    options)
           layoutOptions ==
             IF selected = "network" THEN [defaults EXCEPT !.edgeRouting = "SPLINES"]
             ELSE defaults
           chosen == createPresetConfig(PresetTable("js", call), selected)
           spacingMultiplier == SpacingMultiplier(nodeCount)
           layoutConfig ==
             IF "spacing" \in DOMAIN chosen
             THEN [chosen EXCEPT !.spacing = ScaleSpacing(chosen.spacing, spacingMultiplier)]
             ELSE chosen
       IN StartLayout("smartLayout", Spread(DefaultConfig, layoutConfig), layoutOptions,
                      [given |-> FALSE, value |-> 0], Min(800, nodeCount * 20),
                      selected, spacingMultiplier)

\* a catch block that wraps what it caught
Rethrow_Wrapped(error) == "layout failed: " \o error

\* catch (error) { throw error } of performLayout
Rethrow(error) == error

\* The call once its promise settled: the locals of the call are gone, what
\* it captured, what was removed meanwhile and how it settled stay on record
Settled(pc, result, thrown, error) ==
  [IdleCall EXCEPT !.pc = pc, !.entry = call.entry, !.nodes = call.nodes,
                   !.edges = call.edges, !.engineCalls = call.engineCalls,
                   !.removed = call.removed, !.result = result,
                   !.thrown = thrown, !.error = error]

\* The engine resolves: the result is converted back and applied to the
\* cells the call captured when it started
LayoutResolves ==
  /\ call.pc = "pending"
  /\ \E behaviour \in EngineBehaviours :
       LET layoutResult ==
             convertElkToX6(EngineLayout(elkGraph, behaviour),
                            call.nodes, call.edges)
       IN /\ cells' = [nodes |-> ApplyNodes(cells.nodes, layoutResult.nodes,
                                            call.animationDuration),
                       edges |-> ApplyEdges(cells.edges, layoutResult.edges)]
          /\ writes' = WritesOf(layoutResult)
          /\ call' = Settled("resolved", layoutResult, "", "")
  /\ elkGraph' = NoGraph
  /\ UNCHANGED <<graph, layouts, presetConfig, config, lpc, elk>>

\* The engine rejects: performLayout rethrows and the call rejects
LayoutRejects ==
  /\ call.pc = "pending"
  /\ \E error \in EngineErrors :
       call' = Settled("rejected", EmptyResult, error, Rethrow(error))
  /\ elkGraph' = NoGraph
  /\ UNCHANGED <<cells, graph, layouts, writes, presetConfig, config, lpc, elk>>

\* The cells taken out of the graph so far
Deleted ==
  Cardinality(DOMAIN cells.nodes) + Cardinality(DOMAIN cells.edges)
    - Len(graph.nodes) - Len(graph.edges)

RemoveAt(s, i) == SubSeq(s, 1, i - 1) \o SubSeq(s, i + 1, Len(s))

\* onDeleteSelected of the page with one node or one edge selected:
\* graph.removeCells takes it out of the graph
onDeleteSelected ==
  /\ Deleted < MaxDeletes
  /\ \/ \E i \in 1..Len(graph.nodes) :
          /\ graph' = [graph EXCEPT !.nodes = RemoveAt(@, i)]
          /\ call' = IF call.pc = "pending"
                     THEN [call EXCEPT !.removed =
                             @ \cup {[kind |-> "node", ref |-> graph.nodes[i]]}]
                     ELSE call
     \/ \E i \in 1..Len(graph.edges) :
          /\ graph' = [graph EXCEPT !.edges = RemoveAt(@, i)]
          /\ call' = IF call.pc = "pending"
                     THEN [call EXCEPT !.removed =
                             @ \cup {[kind |-> "edge", ref |-> graph.edges[i]]}]
                     ELSE call
  /\ UNCHANGED <<cells, layouts, writes, presetConfig, layoutVars>>

\* ElkLayoutProcessor.createPresetConfig(name), asked of either processor
RequestPreset ==
  /\ call.pc \in {"idle", "pending"}
  /\ presetConfig = NoPreset
  /\ \E variant \in {"ts", "js"}, name \in PresetNameInputs :
       presetConfig' = [variant |-> variant, name |-> name, during |-> call.pc,
                  config |-> createPresetConfig(PresetTable(variant, call), name)]
  /\ UNCHANGED <<cells, graph, call, layouts, writes, layoutVars>>

(***************************************************************************)
(* The example page (pages/case/elk-layout-example.tsx)                    *)
(***************************************************************************)
\* The buttons of the page that start a layout
PageButtons ==
  {"applyFlowchartLayout", "applyElkLayout", "preset clear",
   "preset flowchart", "preset hierarchy", "preset network",
   "preset circular"}

\* The buttons rendered with loading={this.state.loading}: such a button
\* ignores clicks while the flag is set
HasLoadingProp(button) == button \in {"applyFlowchartLayout", "applyElkLayout"}

\* state = { ..., loading: false } and no layout requested
PageIdle ==
  /\ loading = FALSE
  /\ outstanding = {}
  /\ requests = 0
  /\ applyOrder = <<>>

\* A click on a layout button while the graph has nodes: the handler sets
\* loading, builds a processor of its own and awaits its layout call. No
\* handler reads the flag.
ClickLayoutButton ==
  \E button \in PageButtons :
    /\ requests < MaxRequests
    /\ Len(graph.nodes) > 0
    /\ HasLoadingProp(button) => ~loading
    /\ loading' = TRUE
    /\ requests' = requests + 1
    /\ outstanding' = outstanding \cup
                        {[id |-> requests + 1, handler |-> button]}
    /\ UNCHANGED applyOrder

\* The engine of one request answers: the adapter applies the result or
\* rethrows, and the handler's finally block clears the flag
PageLayoutSettles ==
  \E request \in outstanding, ok \in BOOLEAN :
    /\ outstanding' = outstanding \ {request}
    /\ applyOrder' = IF ok THEN Append(applyOrder, request.id) ELSE applyOrder
    /\ loading' = FALSE
    /\ UNCHANGED requests

(***************************************************************************)
(* Specifications                                                          *)
(***************************************************************************)
\* The batch processor, with an adapter that is never used
Init == BatchInit /\ LayoutInit /\ GraphIdle /\ PageIdle

Next ==
  \/ processBatches /\ UNCHANGED <<layoutVars, graphVars, pageVars>>
  \/ processNextBatchFrame /\ UNCHANGED <<layoutVars, graphVars, pageVars>>
  \/ TransformSettles /\ UNCHANGED <<layoutVars, graphVars, pageVars>>
  \/ processBatchesWithAutoMerge /\ UNCHANGED <<layoutVars, graphVars, pageVars>>
  \/ generateBatch /\ UNCHANGED <<layoutVars, graphVars, pageVars>>
  \/ processBatchFrame /\ UNCHANGED <<layoutVars, graphVars, pageVars>>

Spec == Init /\ [][Next]_vars

\* Animation frames keep firing, every transform call returns, and the
\* continuation of a resolved promise runs.
FairSpec ==
  /\ Spec
  /\ WF_vars(processNextBatchFrame /\ UNCHANGED <<layoutVars, graphVars, pageVars>>)
  /\ WF_vars(TransformSettles /\ UNCHANGED <<layoutVars, graphVars, pageVars>>)
  /\ WF_vars(processBatchFrame /\ UNCHANGED <<layoutVars, graphVars, pageVars>>)
  /\ WF_vars(processBatchesWithAutoMerge /\ UNCHANGED <<layoutVars, graphVars, pageVars>>)

\* The adapter, with a batch processor that is never called
BatchIdle ==
  /\ BatchInit
  /\ api = "processBatches"
  /\ hasProgress = FALSE
  /\ fullArray = <<>>
  /\ batchSize = 1
  /\ transform = "identity"

InitLayout == BatchIdle /\ LayoutInit /\ GraphIdle /\ PageIdle

NextLayout ==
  \/ Construct /\ UNCHANGED <<batchVars, graphVars, pageVars>>
  \/ convertX6ToElk /\ UNCHANGED <<batchVars, graphVars, pageVars>>

SpecLayout == InitLayout /\ [][NextLayout]_vars

\* The batch processor with a transform that may fail on any batch
InitFailing ==
  /\ api \in {"processBatches", "processBatchesWithAutoMerge"}
  /\ hasProgress \in BOOLEAN
  /\ fullArray \in SeqsUpTo(Items, MaxLen)
  /\ batchSize \in 0..MaxBatch
  /\ transform = "failing"
  /\ count = 0
  /\ generator = "double"
  /\ promise = "none"
  /\ currentIndex = 0
  /\ allResults = <<>>
  /\ results = <<>>
  /\ inFlight = <<>>
  /\ rafQueue = 0
  /\ outcome = [state |-> "none", error |-> "", value |-> <<>>]
  /\ batchLog = <<>>
  /\ yieldLog = <<>>
  /\ progressLog = <<>>
  /\ genLog = <<>>
  /\ thrownLog = <<>>
  /\ LayoutInit
  /\ GraphIdle
  /\ PageIdle

NextFailing ==
  \/ processBatches /\ UNCHANGED <<layoutVars, graphVars, pageVars>>
  \/ processNextBatchFrame /\ UNCHANGED <<layoutVars, graphVars, pageVars>>
  \/ TransformSettles /\ UNCHANGED <<layoutVars, graphVars, pageVars>>
  \/ TransformFails /\ UNCHANGED <<layoutVars, graphVars, pageVars>>
  \/ processBatchesWithAutoMerge /\ UNCHANGED <<layoutVars, graphVars, pageVars>>

SpecFailing == InitFailing /\ [][NextFailing]_vars

\* The pages: layout calls on graphs of up to MaxNodes nodes and MaxEdges
\* edges, with cells deleted at any time
InitApply ==
  /\ BatchIdle
  /\ config = DefaultConfig
  /\ lpc = "constructed"
  /\ elk = [instance |-> "worker", workerInitFailed |-> FALSE]
  /\ elkGraph = NoGraph
  /\ \E n \in 0..MaxNodes, m \in 0..MaxEdges :
       \E ends \in [1..m -> {<<1, 2>>}] :
         /\ cells = CellsOf(n, ends)
         /\ graph = GraphOf(n, ends)
  /\ call = IdleCall
  /\ layouts = 0
  /\ writes = {}
  /\ presetConfig = NoPreset
  /\ PageIdle

NextApply ==
  \/ applyLayoutToGraph /\ UNCHANGED <<batchVars, pageVars>>
  \/ applyFlowchartLayout /\ UNCHANGED <<batchVars, pageVars>>
  \/ smartLayout /\ UNCHANGED <<batchVars, pageVars>>
  \/ LayoutResolves /\ UNCHANGED <<batchVars, pageVars>>
  \/ LayoutRejects /\ UNCHANGED <<batchVars, pageVars>>
  \/ onDeleteSelected /\ UNCHANGED <<batchVars, pageVars>>

SpecApply == InitApply /\ [][NextApply]_vars

\* The ends of the edges of a graph of n nodes in one of four shapes: a path
\* over the first nodes, a star around node 1, every pair of the first nodes,
\* or parallel edges between node 1 and node 2 whether or not they exist
ShapeEnds(n, shape, m) ==
  CASE shape = "path" -> [i \in 1..Min(m, Max(n - 1, 0)) |-> <<i, i + 1>>]
    [] shape = "star" -> [i \in 1..Min(m, Max(n - 1, 0)) |-> <<1, i + 1>>]
    [] shape = "clique" ->
         LET k == Min(m, n)
             pairs == {p \in (1..k) \X (1..k) : p[1] < p[2]}
             Before(p) == Cardinality({q \in pairs :
                            q[1] < p[1] \/ (q[1] = p[1] /\ q[2] < p[2])})
         IN [i \in 1..Cardinality(pairs) |->
               CHOOSE p \in pairs : Before(p) = i - 1]
    [] shape = "parallel" -> [i \in 1..m |-> <<1, 2>>]

\* smartLayout, up to the await of the engine, and createPresetConfig on
\* graphs of up to MaxSmartNodes nodes
InitSmart ==
  /\ BatchIdle
  /\ config = DefaultConfig
  /\ lpc = "constructed"
  /\ elk = [instance |-> "worker", workerInitFailed |-> FALSE]
  /\ elkGraph = NoGraph
  /\ \E n \in 0..MaxSmartNodes, m \in 0..MaxShapeSize,
        shape \in {"path", "star", "clique", "parallel"} :
       /\ cells = CellsOf(n, ShapeEnds(n, shape, m))
       /\ graph = GraphOf(n, ShapeEnds(n, shape, m))
  /\ call = IdleCall
  /\ layouts = 0
  /\ writes = {}
  /\ presetConfig = NoPreset
  /\ PageIdle

NextSmart ==
  \/ smartLayout /\ UNCHANGED <<batchVars, pageVars>>
  \/ RequestPreset /\ UNCHANGED <<batchVars, pageVars>>

SpecSmart == InitSmart /\ [][NextSmart]_vars

\* The example page: clicks on its layout buttons and answers of the engines
InitPage ==
  /\ BatchIdle
  /\ LayoutInit
  /\ cells = CellsOf(2, <<<<1, 2>>>>)
  /\ graph = GraphOf(2, <<<<1, 2>>>>)
  /\ call = IdleCall
  /\ layouts = 0
  /\ writes = {}
  /\ presetConfig = NoPreset
  /\ PageIdle

NextPage ==
  \/ ClickLayoutButton /\ UNCHANGED <<batchVars, layoutVars, graphVars>>
  \/ PageLayoutSettles /\ UNCHANGED <<batchVars, layoutVars, graphVars>>

SpecPage == InitPage /\ [][NextPage]_vars

(***************************************************************************)
(* Properties of the batch processor                                       *)
(***************************************************************************)
RECURSIVE Flatten(_)
Flatten(batches) ==
  IF batches = <<>> THEN <<>> ELSE Head(batches) \o Flatten(Tail(batches))

IsBatchRun == api \in {"processBatches", "processBatchesWithAutoMerge"}

\* C1: with a transform that returns its batch, the batches processBatches
\* resolves to, concatenated in result order, are the input sequence: no
\* item lost, duplicated or reordered.
C1_IdentityBatchesFlattenToInput ==
  (api = "processBatches" /\ transform = "identity" /\ promise = "resolved")
    => Flatten(allResults) = fullArray

C1_Witness ==
  /\ api = "processBatches" /\ transform = "identity" /\ promise = "resolved"
  /\ fullArray = <<1, 2, 2, 1>>
  /\ batchSize = 3
  /\ allResults = << <<1, 2, 2>>, <<1>> >>

\* C2: processBatchesWithAutoMerge called with an empty input rejects with
\* the 'no batches to merge' error and never resolves to a merged object.
C2_EmptyInputRejects ==
  (api = "processBatchesWithAutoMerge" /\ fullArray = <<>> /\ outcome.state # "none")
    => (outcome.state = "rejected" /\ outcome.error = "NoBatchesToMerge")

RECURSIVE ConcatArrays(_, _, _)
\* The arrays the batches from index i on carry under key, concatenated
ConcatArrays(batchResults, key, i) ==
  IF i > Len(batchResults) THEN <<>>
  ELSE (IF key \in DOMAIN batchResults[i] THEN batchResults[i][key].val ELSE <<>>)
         \o ConcatArrays(batchResults, key, i + 1)

CarriersOf(batchResults, key) ==
  {i \in 1..Len(batchResults) : key \in DOMAIN batchResults[i]}

LatestCarrier(batchResults, key) ==
  CHOOSE i \in CarriersOf(batchResults, key) :
    \A j \in CarriersOf(batchResults, key) : j <= i

C4_TransformsStrictlySequential ==
  IsBatchRun =>
    /\ Len(inFlight) <= 1
    /\ (inFlight # <<>> => rafQueue = 0)
    /\ \A k \in 1..Len(batchLog) :
         /\ batchLog[k].running = 0
         /\ batchLog[k].recorded = k - 1
         /\ batchLog[k].start = (IF k = 1 THEN 0 ELSE batchLog[k - 1].end)

C4_Witness ==
  /\ api = "processBatches" /\ promise = "pending"
  /\ Len(batchLog) = 3 /\ Len(inFlight) = 1 /\ Len(allResults) = 2

\* C5: a run of k batches requests an animation frame exactly k-1 times: the
\* i-th request is made when exactly i batches have run and none is running,
\* none is made before the first batch and none after the last.
C5_OneYieldPerBatchBoundary ==
  /\ \A i \in 1..Len(yieldLog) : yieldLog[i].started = i /\ yieldLog[i].running = 0
  /\ promise = "none" => (yieldLog = <<>> /\ rafQueue = 0)
  /\ promise = "resolved" => (Len(yieldLog) = Len(batchLog) - 1 /\ rafQueue = 0)

C5_Witness ==
  /\ promise = "resolved" /\ api = "processBatches"
  /\ Len(batchLog) = 4 /\ Len(yieldLog) = 3

\* C6: generateBatch calls the generator once for each index 0..count-1 in
\* increasing order and resolves to the generated values in index order; the
\* progress callback runs once per batch (4 times for count 10 and batch
\* size 3) and its last call reports processed = total = count.
C6_GenerateBatchCallsEachIndexOnce ==
  api = "generateBatch" =>
    /\ genLog = Range(0, Len(genLog))
    /\ promise = "resolved" =>
         /\ genLog = [i \in 1..count |-> i - 1]
         /\ results = [i \in 1..count |-> generate(generator, i - 1)]
         /\ hasProgress =>
              /\ Len(progressLog) = Len(batchLog)
              /\ \A i \in 1..Len(progressLog) : progressLog[i].batches = i
              /\ count > 0 =>
                   Len(progressLog) = (count + batchSize - 1) \div batchSize
              /\ progressLog[Len(progressLog)].processed = count
              /\ progressLog[Len(progressLog)].total = count

C6_Witness ==
  /\ api = "generateBatch" /\ promise = "resolved" /\ hasProgress
  /\ count = 10 /\ batchSize = 3 /\ generator = "double"
  /\ results = <<0, 2, 4, 6, 8, 10, 12, 14, 16, 18>>
  /\ Len(progressLog) = 4
  /\ progressLog[4].processed = 10 /\ progressLog[4].total = 10

\* C7: in every batch run, also of an empty input, every progress call
\* reports total = input length, a processed count that strictly increases
\* from call to call, and a fraction processed/total that is a number in
\* [0,1]; the last call reports processed = total and fraction 1.
C7_ProgressIsFractionInUnitInterval ==
  hasProgress =>
    /\ \A i \in 1..Len(progressLog) :
         LET p == progressLog[i]
         IN /\ p.total = Total
            /\ ~p.progress.nan
            /\ p.progress.num = p.processed /\ p.progress.den = p.total
            /\ 0 <= p.progress.num /\ p.progress.num <= p.progress.den
            /\ i > 1 => p.processed > progressLog[i - 1].processed
    /\ promise = "resolved" =>
         /\ progressLog # <<>>
         /\ progressLog[Len(progressLog)].processed = Total
         /\ ~progressLog[Len(progressLog)].progress.nan
         /\ progressLog[Len(progressLog)].progress.num
              = progressLog[Len(progressLog)].progress.den

\* C8: once started, for every input and every batch size, a batch run
\* whose transforms return and whose animation frames fire eventually
\* resolves.
C8_StartedRunResolves == (promise # "none") ~> (promise = "resolved")

\* C9: processBatches calls the transform once per batch of a partition of
\* the input: batch j holds the items [j*batchSize, min((j+1)*batchSize, n)),
\* every batch but the last has batchSize items, and no batch is empty.
C9_BatchesPartitionInput ==
  IsBatchRun =>
    /\ \A j \in 1..Len(batchLog) :
         /\ batchLog[j].start = (j - 1) * batchSize
         /\ batchLog[j].end = Min(j * batchSize, Len(fullArray))
         /\ batchLog[j].items = SubSeq(fullArray, batchLog[j].start + 1, batchLog[j].end)
         /\ Len(batchLog[j].items) >= 1
         /\ Len(batchLog[j].items) <= batchSize
         /\ j < Len(batchLog) => Len(batchLog[j].items) = batchSize
    /\ promise = "resolved" => batchLog[Len(batchLog)].end = Len(fullArray)

(***************************************************************************)
(* Properties of the directive set                                         *)
(***************************************************************************)
\* The numbers a spacing directive can spell: the floor, a configured
\* spacing, or a number a caller wrote into layoutOptions
DirectiveNumbers(key) == {SpacingMinimum(key)} \cup SpacingInputs \cup {5}

\* The directive is the decimal string of a number that is at least the floor
AtLeastMinimum(directive, key) ==
  \E n \in DirectiveNumbers(key) :
    n >= SpacingMinimum(key) /\ directive = NumberToString(n)

\* A configured spacing below the floor, or none, gives exactly the floor
BelowGivesMinimum(key) ==
  (key \notin DOMAIN config.spacing \/ config.spacing[key] < SpacingMinimum(key))
    => elkGraph.layoutOptions[SpacingDirective(key)] = NumberToString(SpacingMinimum(key))

\* C10 as stated: for every processor configuration each of the four spacing
\* directives handed to the engine is at least its minimum, and a configured
\* value below the minimum, or an absent one, yields exactly the minimum.
C10_EverySpacingDirectiveClamped ==
  lpc = "converted" =>
    \A key \in SpacingKeys :
      /\ AtLeastMinimum(elkGraph.layoutOptions[SpacingDirective(key)], key)
      /\ BelowGivesMinimum(key)

\* C10 amended: the same for every spacing directive that the configured
\* layoutOptions do not override.
C10_SpacingDirectiveClampedUnlessOverridden ==
  lpc = "converted" =>
    \A key \in SpacingKeys :
      SpacingDirective(key) \notin DOMAIN config.layoutOptions =>
        /\ AtLeastMinimum(elkGraph.layoutOptions[SpacingDirective(key)], key)
        /\ BelowGivesMinimum(key)

C10_Witness ==
  /\ lpc = "converted"
  /\ config.layoutOptions = EmptyObject
  /\ DOMAIN config.spacing = {"nodeNode", "nodeNodeBetweenLayers"}
  /\ config.spacing["nodeNode"] = 10
  /\ config.spacing["nodeNodeBetweenLayers"] = 100
  /\ elkGraph.layoutOptions["elk.spacing.nodeNode"] = "30"
  /\ elkGraph.layoutOptions["elk.layered.spacing.nodeNodeBetweenLayers"] = "100"
  /\ elkGraph.layoutOptions["elk.spacing.edgeEdge"] = "20"

\* The keys buildLayoutOptions computes whatever the configuration is
FixedTuningTable ==
  [k \in {"elk.layered.crossingMinimization.strategy",
          "elk.layered.nodePlacement.strategy", "elk.layered.cycleBreaking.strategy",
          "elk.layered.compaction.postCompaction.strategy",
          "elk.layered.compaction.postCompaction.constraints",
          "elk.layered.edgeRouting.selfLoopDistribution",
          "elk.layered.edgeRouting.selfLoopOrdering", "elk.layered.thoroughness",
          "elk.layered.unnecessaryBendpoints", "elk.portConstraints", "elk.port.side"} |->
     CASE k = "elk.layered.crossingMinimization.strategy" -> "LAYER_SWEEP"
       [] k = "elk.layered.nodePlacement.strategy" -> "BRANDES_KOEPF"
       [] k = "elk.layered.cycleBreaking.strategy" -> "GREEDY"
       [] k = "elk.layered.compaction.postCompaction.strategy" -> "EDGE_LENGTH"
       [] k = "elk.layered.compaction.postCompaction.constraints" -> "SEQUENCE"
       [] k = "elk.layered.edgeRouting.selfLoopDistribution" -> "EQUALLY"
       [] k = "elk.layered.edgeRouting.selfLoopOrdering" -> "STACKED"
       [] k = "elk.layered.thoroughness" -> "100"
       [] k = "elk.layered.unnecessaryBendpoints" -> "true"
       [] k = "elk.portConstraints" -> "FIXED_SIDE"
       [] k = "elk.port.side" -> "SOUTH"]

\* C11: every key of the configured layoutOptions carries the caller's value
\* in the directive set, whatever would have been computed for it; every
\* other key keeps its computed value: the configured algorithm and
\* direction, a routing style, the fixed tuning table.
C11_CallerOverridesWin ==
  lpc = "converted" =>
    LET built == elkGraph.layoutOptions
        overrides == config.layoutOptions
    IN /\ \A k \in DOMAIN overrides : k \in DOMAIN built /\ built[k] = overrides[k]
       /\ DOMAIN built = DOMAIN overrides \cup DOMAIN FixedTuningTable
            \cup {SpacingDirective(key) : key \in SpacingKeys}
            \cup {"elk.algorithm", "elk.direction", "elk.edge.routing"}
       /\ \A k \in DOMAIN built \ DOMAIN overrides :
            /\ k \in DOMAIN FixedTuningTable => built[k] = FixedTuningTable[k]
            /\ k = "elk.algorithm" => built[k] = config.algorithm
            /\ k = "elk.direction" => built[k] = config.direction
            /\ k = "elk.edge.routing" => built[k] \in {"ORTHOGONAL", "POLYLINE", "SPLINES"}

C11_Witness ==
  /\ lpc = "converted"
  /\ DOMAIN config.layoutOptions
       = {"elk.algorithm", "elk.direction", "elk.layered.thoroughness"}
  /\ config.algorithm = "force"
  /\ elkGraph.layoutOptions["elk.algorithm"] = "stress"
  /\ elkGraph.layoutOptions["elk.direction"] = "RIGHT"
  /\ elkGraph.layoutOptions["elk.layered.thoroughness"] = "7"
  /\ elkGraph.layoutOptions["elk.port.side"] = "SOUTH"

\* C14: when worker initialization fails the constructor still succeeds and
\* leaves useWorker false; after any construction useWorker is true only if
\* the engine instance was created with a worker.
C14_UseWorkerReflectsEngine ==
  lpc # "start" =>
    /\ elk.workerInitFailed => (lpc # "failed" /\ ~config.useWorker)
    /\ (lpc # "failed" /\ config.useWorker) => elk.instance = "worker"

(***************************************************************************)
(* Properties of the presets, of smartLayout and of the layout calls       *)
(***************************************************************************)
PresetsOf(variant) == IF variant = "ts" THEN TsPresets ELSE JsPresets

\* C12: createPresetConfig called with any name outside the known presets
\* returns a configuration equal field for field to the flowchart one.
C12_UnknownNameGivesFlowchart ==
  (presetConfig # NoPreset /\ presetConfig.name \notin DOMAIN PresetsOf(presetConfig.variant))
    => presetConfig.config = PresetsOf(presetConfig.variant)["flowchart"]

\* C13: the descriptor holds one child per node and one edge per edge of the
\* input, in input order, with the ids unchanged; every entry of a converted
\* result that has an original refers to the captured original of its id.
C13_IdentifiersRoundTrip ==
  /\ call.pc = "pending" =>
       /\ Len(elkGraph.children) = Len(call.nodes)
       /\ \A i \in 1..Len(call.nodes) : elkGraph.children[i].id = NodeId(call.nodes[i])
       /\ Len(elkGraph.edges) = Len(call.edges)
       /\ \A i \in 1..Len(call.edges) : elkGraph.edges[i].id = EdgeId(call.edges[i])
  /\ call.pc = "resolved" =>
       /\ \A i \in 1..Len(call.result.nodes) :
            LET entry == call.result.nodes[i]
            IN entry.originalNode # NoRef =>
                 /\ entry.originalNode \in {call.nodes[j] : j \in 1..Len(call.nodes)}
                 /\ cells.nodes[entry.originalNode].id = entry.id
       /\ \A i \in 1..Len(call.result.edges) :
            LET entry == call.result.edges[i]
            IN entry.originalEdge # NoRef =>
                 /\ entry.originalEdge \in {call.edges[j] : j \in 1..Len(call.edges)}
                 /\ cells.edges[entry.originalEdge].id = entry.id

C13_Witness ==
  /\ call.pc = "resolved"
  /\ Len(call.nodes) = 2
  /\ Len(call.result.nodes) = 3
  /\ call.result.nodes[1].id = NodeId(call.nodes[2])
  /\ call.result.nodes[1].originalNode = call.nodes[2]
  /\ call.result.nodes[3].originalNode = NoRef

\* C15: when the engine's layout call fails, the call rejects with that same
\* failure, the engine was called once, and no position and no vertex list
\* was written.
C15_EngineFailurePropagates ==
  call.pc = "rejected" =>
    /\ call.thrown \in EngineErrors
    /\ call.error = call.thrown
    /\ call.engineCalls = 1
    /\ writes = {}

C15_Witness ==
  /\ call.pc = "rejected"
  /\ call.error = "worker terminated"
  /\ layouts = 2
  /\ 1 \in DOMAIN cells.nodes
  /\ cells.nodes[1].x = 40

\* C16: on a graph without nodes each of the three layout methods resolves
\* to the empty result with a 0 x 0 size, without calling the engine and
\* without a write, whether or not the graph holds edges.
C16_EmptyGraphResolvesEmpty ==
  (call.pc # "idle" /\ Len(call.nodes) = 0) =>
    /\ call.pc = "resolved"
    /\ call.result = EmptyResult
    /\ call.result.layoutSize = [width |-> 0, height |-> 0]
    /\ call.engineCalls = 0
    /\ writes = {}

C16_Witness ==
  /\ call.pc = "resolved"
  /\ call.entry = "smartLayout"
  /\ Len(call.nodes) = 0
  /\ Len(call.edges) > 0
  /\ call.result = EmptyResult

\* C17: a node or an edge removed from the graph between the start of a
\* layout and its apply step receives no position write and no vertex write.
C17_RemovedCellsSkipped ==
  call.pc = "resolved" =>
    \A w \in writes : [kind |-> w.kind, ref |-> w.ref] \notin call.removed

\* C18: after the apply step every matched edge's vertex list equals the bend
\* points this layout computed for it, the empty list included.
C18_VerticesEqualBendPoints ==
  call.pc = "resolved" =>
    \A i \in 1..Len(call.result.edges) :
      LET entry == call.result.edges[i]
      IN entry.originalEdge # NoRef =>
           cells.edges[entry.originalEdge].vertices = entry.vertices

\* The largest number of edge ends at one node id of the captured graph
LargestDegree ==
  LET ends(i) == cells.edges[call.edges[i]]
      ids == {ends(i).source : i \in 1..Len(call.edges)}
               \cup {ends(i).target : i \in 1..Len(call.edges)}
      degree(id) == Cardinality({i \in 1..Len(call.edges) : ends(i).source = id})
                      + Cardinality({i \in 1..Len(call.edges) : ends(i).target = id})
  IN IF ids = {} THEN 0
     ELSE CHOOSE g \in {degree(id) : id \in ids} : \A id \in ids : degree(id) <= g

\* C19: smartLayout selects exactly one preset for every graph with nodes;
\* with n nodes, d the edge count over the n(n-1)/2 node pairs and g the
\* largest degree, the first match of: n <= 10 and d < 0.3 clear; n <= 20
\* and g <= 3 flowchart; d > 0.5 or g > 5 network, with SPLINES routing;
\* n > 30 compact; otherwise hierarchy.
C19_SelectionIsFirstMatch ==
  (call.pc = "pending" /\ call.entry = "smartLayout") =>
    LET n == Len(call.nodes)
        e == Len(call.edges)
        g == LargestDegree
        expected ==
          IF n <= 10 /\ 20 * e < 3 * n * (n - 1) THEN "clear"
          ELSE IF n <= 20 /\ g <= 3 THEN "flowchart"
          ELSE IF 4 * e > n * (n - 1) \/ g > 5 THEN "network"
          ELSE IF n > 30 THEN "compact"
          ELSE "hierarchy"
    IN /\ call.selected \in {"clear", "flowchart", "network", "compact", "hierarchy"}
       /\ call.config.algorithm = JsPresets[call.selected].algorithm
       /\ call.config.direction = JsPresets[call.selected].direction
       /\ call.config.layoutOptions = JsPresets[call.selected].layoutOptions
       /\ n >= 2 => call.selected = expected
       /\ call.selected = "network" => call.options.edgeRouting = "SPLINES"

C19_Witness ==
  /\ call.pc = "pending"
  /\ call.entry = "smartLayout"
  /\ Len(call.nodes) = 25
  /\ LargestDegree = 4
  /\ call.selected = "hierarchy"

\* C20: every spacing value of the selected preset is scaled by the same
\* factor f = max(1, min(2, n / 15)) and rounded; f is 1 up to 15 nodes,
\* never decreases with n, is 2 from 30 nodes on; each scaled value lies
\* between the preset's value and twice it.
C20_SpacingScaledByClampedFactor ==
  (call.pc = "pending" /\ call.entry = "smartLayout") =>
    LET n == Len(call.nodes)
        f == call.multiplier
        base == JsPresets[call.selected].spacing
        scaled == call.config.spacing
        Distance(a, b) == IF a >= b THEN a - b ELSE b - a
    IN /\ f.den > 0
       /\ n <= 15 => f.num = f.den
       /\ n >= 30 => f.num = 2 * f.den
       /\ (15 < n /\ n < 30) => 15 * f.num = n * f.den
       /\ \A m \in 1..n :
            SpacingMultiplier(m).num * f.den <= f.num * SpacingMultiplier(m).den
       /\ DOMAIN scaled = DOMAIN base
       /\ \A key \in DOMAIN base :
            /\ 2 * Distance(scaled[key] * f.den, base[key] * f.num) <= f.den
            /\ base[key] <= scaled[key]
            /\ scaled[key] <= 2 * base[key]

C20_Witness ==
  /\ call.pc = "pending"
  /\ call.entry = "smartLayout"
  /\ Len(call.nodes) = 20
  /\ call.selected = "flowchart"
  /\ call.config.spacing["nodeNodeBetweenLayers"] = 107
  /\ call.config.spacing["edgeEdge"] = 27

\* C21: on the example page at most one layout computation is outstanding
\* at a time: a layout request cannot start while an earlier one on the same
\* graph has been neither applied nor failed, so results are applied in the
\* order of their requests.
C21_OneLayoutOutstanding ==
  /\ Cardinality(outstanding) <= 1
  /\ \A i, j \in 1..Len(applyOrder) : i < j => applyOrder[i] < applyOrder[j]

\* The records of a reverse conversion follow the engine's answer one to one
RecordsFollowAnswer(answer, result, originalNodes, originalEdges) ==
  LET children == OrEmpty(answer, "children")
      connections == OrEmpty(answer, "edges")
      NodeIds == {cells.nodes[originalNodes[j]].id : j \in 1..Len(originalNodes)}
      EdgeIds == {cells.edges[originalEdges[j]].id : j \in 1..Len(originalEdges)}
  IN /\ Len(result.nodes) = Len(children)
     /\ Len(result.edges) = Len(connections)
     /\ \A i \in 1..Len(children) :
          /\ result.nodes[i].id = children[i].id
          /\ children[i].id \notin NodeIds => result.nodes[i].originalNode = NoRef
          /\ children[i].id \in NodeIds =>
               /\ result.nodes[i].originalNode # NoRef
               /\ cells.nodes[result.nodes[i].originalNode].id = children[i].id
          /\ "width" \notin DOMAIN children[i] => result.nodes[i].width = 80
          /\ "height" \notin DOMAIN children[i] => result.nodes[i].height = 40
          /\ "width" \in DOMAIN children[i] /\ children[i].width > 0 =>
               result.nodes[i].width = children[i].width
          /\ "height" \in DOMAIN children[i] /\ children[i].height > 0 =>
               result.nodes[i].height = children[i].height
     /\ \A i \in 1..Len(connections) :
          /\ result.edges[i].id = connections[i].id
          /\ connections[i].id \notin EdgeIds => result.edges[i].originalEdge = NoRef
          /\ connections[i].id \in EdgeIds =>
               /\ result.edges[i].originalEdge # NoRef
               /\ cells.edges[result.edges[i].originalEdge].id = connections[i].id

\* C22: the reverse conversion emits one record for every node and every
\* edge the engine returned; a returned identifier that matches no original
\* yields a record without original reference, and a returned node without
\* width or height gets the default node size 80 x 40.
C22_OneRecordPerReturnedCell ==
  call.pc = "pending" =>
    \A behaviour \in EngineBehaviours :
      LET answer == EngineLayout(elkGraph, behaviour)
      IN RecordsFollowAnswer(answer,
                             convertElkToX6(answer, call.nodes, call.edges),
                             call.nodes, call.edges)

\* a call resolved with an answer that held a node and an edge the graph
\* never had, next to the two nodes and the edge it has
C22_Witness ==
  /\ call.pc = "resolved"
  /\ Len(call.result.nodes) = 3
  /\ Len(call.result.edges) = 2
  /\ \E i \in 1..3 :
       /\ call.result.nodes[i].id = "ghost"
       /\ call.result.nodes[i].originalNode = NoRef
       /\ call.result.nodes[i].width = 80
       /\ call.result.nodes[i].height = 40
  /\ \E i \in 1..2 :
       /\ call.result.edges[i].id = "ghost-edge"
       /\ call.result.edges[i].originalEdge = NoRef

\* The size the caller's options make the default: options.defaultNodeSize,
\* or 80 x 40 when the options name none
DefaultSizeOf(options) ==
  IF "defaultNodeSize" \in DOMAIN options
  THEN options.defaultNodeSize ELSE [width |-> 80, height |-> 40]

\* Whether the caller's options ask for the nodes' own sizes (the default)
AutoSizeOf(options) ==
  IF "autoCalculateSize" \in DOMAIN options THEN options.autoCalculateSize ELSE TRUE

\* Every child of the descriptor carries, per dimension, the node's own
\* dimension or the default one
ChildSizesFollowNodes ==
  /\ Len(elkGraph.children) = Len(call.nodes)
  /\ \A i \in 1..Len(call.nodes) :
       LET node == cells.nodes[call.nodes[i]]
           child == elkGraph.children[i]
       IN /\ child.id = node.id
          /\ child.width = IF AutoSizeOf(call.options) /\ node.width > 0
                           THEN node.width ELSE DefaultSizeOf(call.options).width
          /\ child.height = IF AutoSizeOf(call.options) /\ node.height > 0
                            THEN node.height ELSE DefaultSizeOf(call.options).height

\* C24: the forward conversion gives each node, for width and for height
\* independently, its own dimension when auto-size is requested and the
\* dimension is positive, otherwise the caller's default dimension (80 x 40
\* when the caller names none), and leaves the node as it was.
C24_SizeFromNodeOrDefault ==
  [][(call.pc # "pending" /\ call'.pc = "pending") =>
       (cells' = cells /\ ChildSizesFollowNodes')]_vars

\* a pending flowchart call on a node without width: the child has the
\* caller's default width 120 and the node's own height 30
C24_Witness ==
  /\ call.pc = "pending"
  /\ call.entry = "applyFlowchartLayout"
  /\ AutoSizeOf(call.options)
  /\ \E i \in 1..Len(call.nodes) :
       /\ cells.nodes[call.nodes[i]].width = 0
       /\ elkGraph.children[i].width = 120
       /\ elkGraph.children[i].height = 30

\* The preset names the pages and the guide offer
OfferedPresets ==
  {"flowchart", "hierarchy", "network", "circular", "clear", "compact"}

\* C23: every offered preset name (flowchart, hierarchy, network, circular,
\* clear, compact) maps to a bundle of its own with algorithm, direction and
\* spacing; none of them is answered through the unknown-name fallback.
C23_OfferedPresetsHaveOwnBundle ==
  (presetConfig # NoPreset /\ presetConfig.name \in OfferedPresets) =>
    /\ presetConfig.name \in DOMAIN PresetsOf(presetConfig.variant)
    /\ presetConfig.config = PresetsOf(presetConfig.variant)[presetConfig.name]
    /\ {"algorithm", "direction", "spacing"} \subseteq DOMAIN presetConfig.config
    /\ presetConfig.name # "flowchart" =>
         presetConfig.config # PresetsOf(presetConfig.variant)["flowchart"]

\* C25: when the caller passes an animation duration to applyLayoutToGraph
\* or applyFlowchartLayout, every matched node is written without a
\* transition if the duration is 0 and with a transition of exactly that
\* duration if it is greater than 0.
C25_ZeroDurationWritesDirectly ==
  [][(/\ call.pc = "pending"
      /\ call'.pc = "resolved"
      /\ call.entry \in {"applyLayoutToGraph", "applyFlowchartLayout"}
      /\ call.requested.given) =>
       \A i \in 1..Len(call'.result.nodes) :
         LET node == call'.result.nodes[i].originalNode
         IN node # NoRef =>
              cells'.nodes[node].transition = call.requested.value]_vars

\* C26: smartLayout selects the preset 'clear' for every graph of 1 to 10
\* nodes without edges, the graph of a single node included.
C26_EdgelessSmallGraphIsClear ==
  (/\ call.pc = "pending"
   /\ call.entry = "smartLayout"
   /\ Len(call.nodes) \in 1..10
   /\ Len(call.edges) = 0) => call.selected = "clear"

\* C27: once the per-batch transform has failed on a batch, the promise
\* processBatches returned is rejected with that failure (as is the one of the
\* merge variant that awaits it) and no further batch is started; the promise
\* does not stay pending.
C27_TransformFailureRejects ==
  thrownLog # <<>> =>
    /\ promise = "rejected"
    /\ Len(batchLog) = thrownLog[1].started
    /\ api = "processBatchesWithAutoMerge" =>
         (outcome.state = "rejected" /\ outcome.error = thrownLog[1].error)

\* C28: createPresetConfig returns a fresh configuration on every call: a
\* preset asked for while a smartLayout that scaled its bundle in place is
\* under way is the bundle as written in the table, and the spacing
\* smartLayout hands on is the table's spacing scaled once.
C28_PresetsAreFresh ==
  /\ (presetConfig # NoPreset
        /\ presetConfig.name \in DOMAIN PresetsOf(presetConfig.variant)) =>
       presetConfig.config = PresetsOf(presetConfig.variant)[presetConfig.name]
  /\ (call.pc = "pending" /\ call.entry = "smartLayout") =>
       call.config.spacing =
         ScaleSpacing(JsPresets[call.selected].spacing, call.multiplier)

\* the preset a pending smartLayout selected and scaled by more than 1 is
\* asked for again while that call is under way
C28_Witness ==
  /\ call.pc = "pending"
  /\ call.entry = "smartLayout"
  /\ GreaterThan(call.multiplier, 1, 1)
  /\ presetConfig.during = "pending"
  /\ presetConfig.variant = "js"
  /\ presetConfig.name = call.selected
  /\ presetConfig.config.spacing # call.config.spacing
  /\ presetConfig.config.spacing = JsPresets[call.selected].spacing

\* The spacing values of the flowchart configuration as the claim lists them
FlowchartSpacing ==
  [k \in SpacingKeys |->
     CASE k = "nodeNodeBetweenLayers" -> 100
       [] k = "edgeNodeBetweenLayers" -> 50
       [] k = "nodeNode" -> 80
       [] k = "edgeEdge" -> 30]

\* C29: in applyFlowchartLayout a caller who overrides only some spacing
\* values through elkConfig.spacing gets, for every value left out, the
\* flowchart default (100 / 50 / 80 / 30) in the directives sent to the engine.
C29_OmittedSpacingKeepsFlowchartDefault ==
  (call.pc = "pending" /\ call.entry = "applyFlowchartLayout") =>
    \A k \in SpacingKeys \ DOMAIN call.config.spacing :
      elkGraph.layoutOptions[SpacingDirective(k)] = NumberToString(FlowchartSpacing[k])

\* C30: the edgeRouting the caller passes in the conversion options is the
\* value of 'elk.edge.routing' sent to the engine, whatever the processor's
\* configuration, the one built inside applyFlowchartLayout included.
C30_CallerEdgeRoutingReachesEngine ==
  (/\ call.pc = "pending"
   /\ call.entry \in {"applyLayoutToGraph", "applyFlowchartLayout"}
   /\ "edgeRouting" \in DOMAIN call.options) =>
    elkGraph.layoutOptions["elk.edge.routing"] = call.options.edgeRouting


====
